---- MODULE Spec2Model ----
(***************************************************************************)
(* Authentication and token-lifecycle core of the notification service:    *)
(*   TokenManager   (backend/services/oidc.go, the WeChat token cache)     *)
(*   OIDCProvider   (backend/services/oidc.go, the pending-state store)    *)
(*   SessionManager (backend/services/session.go)                          *)
(*   RateLimiter    (backend/main.go, package middleware)                  *)
(* Each component has its own specification over its own variables; the    *)
(* variables of the other components stay at their initial values.         *)
(* Time is a discrete clock `now`; time.Now() reads it.                    *)
(***************************************************************************)
EXTENDS Integers, Sequences, FiniteSets, TLC

VARIABLES
    now,          \* the wall clock read by time.Now()
    \* ---- TokenManager ----
    appID, appSecret, accessToken, expiresAt,
    mu,           \* tm.mu: [w |-> thread holding Lock or 0, r |-> threads holding RLock]
    pc,           \* position of each thread inside a TokenManager method
    op,           \* the method the thread is in, or was in last
    req,          \* credentials in the URL of the thread's upstream request
    ret,          \* result of the thread's last completed call
    path,         \* how the thread's last GetAccessToken/ForceRefresh ended
    callsLeft,    \* calls that may still be started
    reqCount,     \* history: upstream requests issued so far
    minStored,    \* history: least expiresAt stored by a successful refresh
    failed,       \* history: some upstream request has failed
    updPending,   \* history: UpdateCredentials returned, no request sent since
    lastUpd,      \* history: credentials given to the last UpdateCredentials
    updFresh,     \* history: the cache was fresh when UpdateCredentials ran
    updWaited,    \* history: a refresh ended while UpdateCredentials waited
    \* ---- OIDCProvider ----
    discoveryDoc, \* p.discoveryDoc is cached
    stateStore,   \* p.stateStore: state value -> expiry
    generated,    \* state values handed out by GenerateState
    mintedAt,     \* history: state value -> time GetAuthorizationURL stored it
    vhist,        \* history: state value -> the ValidateState calls made with it
    stCallsLeft,  \* OIDCProvider calls that may still be started
    \* ---- SessionManager ----
    ttl,          \* sm.ttl
    sessions,     \* sm.sessions: session id -> [createdAt, expiresAt]
    spc,          \* position of each thread inside a SessionManager call
    sarg,         \* the session id the call was given
    sfound,       \* what GetSession read from the map: [exists, expiresAt]
    last,         \* history: the call that returned last, and its result
    validated,    \* history: the session ids some call has found valid
    snow,         \* history: the time.Now() GetSession compared with
    sstatus,      \* history: session id -> "live", "deleted" or "evicted"
    sstart,       \* history: the status of the call's session id when it began
    sCallsLeft,   \* SessionManager calls that may still be started
    \* ---- RateLimiter ----
    rate,         \* rl.rate: tokens per interval
    interval,     \* rl.interval: refill interval
    burst,        \* rl.burst: max tokens
    tokens,       \* rl.tokens: key -> token count
    lastTime,     \* rl.lastTime: key -> time of the last allowed call
    hist,         \* history: key -> the Allow calls made, [t, ok] each
    \* ---- TokenManager used by a single caller ----
    res,          \* what the caller's last call returned
    storedIn,     \* history: the lifetime given when the cache was last written
    cCallsLeft,   \* calls the single caller may still make
    \* ---- AuthHandler.Callback ----
    cpc,          \* position of each thread inside Callback
    creq,         \* the callback request the thread is serving
    ctok,         \* the identity token of the token response
    cuser,        \* userInfo: [sub, email]
    cnet,         \* history: the upstream calls the callback has made
    clast,        \* history: the callback that finished last
    cmade,        \* history: session id -> state value of the callback that made it
    cbLeft,       \* callbacks that may still arrive
    \* ---- the protected /api route group ----
    devMode,      \* cfg.DevMode
    plast,        \* history: the request answered last and its response
    pLeft,        \* requests that may still arrive
    \* ---- getDiscoveryDocument, step by step ----
    dpc,          \* where each thread stands in getDiscoveryDocument
    dop,          \* the method each thread is running
    darg,         \* the state a thread's GetAuthorizationURL was given
    readers,      \* threads holding discoveryMu for reading
    writer,       \* the thread holding discoveryMu for writing, or NoThread
    issued,       \* history: discovery fetches issued
    succeeded,    \* history: discovery fetches that succeeded
    dlast,        \* history: the call that returned last
    dLeft,        \* calls that may still be made
    \* ---- POST /api/webhook/send ----
    wpc,          \* where each request stands: idle, limit, handler
    wreq,         \* the request a thread is serving
    wok,          \* what Allow answered for the request the thread is serving
    wlast,        \* history: the request answered last and its response
    wchecks,      \* history: webhook token checks made
    wsends,       \* history: message dispatches made
    wLeft,        \* requests that may still arrive
    \* ---- ValidateMessage ----
    vreq,         \* the SendMessageRequest at hand
    vres,         \* what ValidateMessage returned for it, or NotValidated
    \* ---- MessageHandler.Send ----
    sdpc,         \* the send request: idle, sending, done
    sdids,        \* req.RecipientIDs of the request
    sddb,         \* the GetByID call that met a database error, 0 if none did
    sdpending,    \* the goroutines of SendMessageToMultiple that have not reported
    sdtok,        \* history: the goroutines whose GetAccessToken succeeded
    sdposts,      \* history: OpenID -> template-message POSTs made to it
    sdresults,    \* results: OpenID -> outcome reported for it
    sdresp,       \* the response of the request
    \* ---- SQLiteRepository: recipients ----
    rstore,       \* the recipients table: id -> open_id
    rnext,        \* the next AUTOINCREMENT id
    rpc,          \* where each call stands: idle, insert, update
    rarg,         \* the recipient a call was given: [id, openID]
    rlast,        \* history: the call that returned last and its error
    rLeft,        \* calls that may still be made
    \* ---- AuthHandler.Login ----
    lgcfg,        \* OIDCConfig: provider URL, client id, client secret
    lglast,       \* history: the answer to the last login request
    lgLeft,       \* login requests that may still arrive
    \* ---- SessionManager, lock by lock ----
    lkpc,         \* where each call stands inside the session manager
    lkarg,        \* the session id a call was given
    lkfound,      \* what the lookup under the shared lock found
    lkmu,         \* sm.mu: the thread holding it for writing, the threads holding it for reading
    lkLeft,       \* calls that may still be made
    \* ---- SendMessageToMultiple, goroutine by goroutine ----
    mxpc,         \* SendMessageToMultiple: not called, collecting, returned
    mxids,        \* openIDs, the argument
    mxgo,         \* where each sender goroutine stands
    mxchan,       \* resultChan: the reports sent and not yet received
    mxgot,        \* reports the collection loop has received
    mxresults,    \* results, the map under construction
    \* ---- ConfigHandler.SaveWeChatConfig ----
    cfstore,      \* the config table: the credentials last committed
    cfpc,         \* where each SaveWeChatConfig request stands
    cfreq,        \* the configuration the request carries, and whether it was committed
    cfquiet,      \* history: nobody else wrote the TokenManager since the request's update
    cflast,       \* history: the request answered last
    cfLeft        \* requests that may still arrive

tmVars == <<appID, appSecret, accessToken, expiresAt, mu, pc, op, req, ret, path,
            callsLeft, reqCount, minStored, failed, updPending, lastUpd, updFresh,
            updWaited>>

stVars == <<discoveryDoc, stateStore, generated, mintedAt, vhist, stCallsLeft>>

smVars == <<ttl, sessions, spc, sarg, sfound, last, validated, snow,
            sstatus, sstart, sCallsLeft>>

rlVars == <<rate, interval, burst, tokens, lastTime, hist>>

cvVars == <<res, storedIn, cCallsLeft>>

cbVars == <<cpc, creq, ctok, cuser, cnet, clast, cmade, cbLeft>>

prVars == <<devMode, plast, pLeft>>

dcVars == <<dpc, dop, darg, readers, writer, issued, succeeded, dlast, dLeft>>

whVars == <<wpc, wreq, wok, wlast, wchecks, wsends, wLeft>>

vmVars == <<vreq, vres>>

sdVars == <<sdpc, sdids, sddb, sdpending, sdtok, sdposts, sdresults, sdresp>>

rcVars == <<rstore, rnext, rpc, rarg, rlast, rLeft>>

lgVars == <<lgcfg, lglast, lgLeft>>

lkVars == <<lkpc, lkarg, lkfound, lkmu, lkLeft>>

mxVars == <<mxpc, mxids, mxgo, mxchan, mxgot, mxresults>>

\* the components added last
cfVars == <<cfstore, cfpc, cfreq, cfquiet, cflast, cfLeft>>

lateVars == <<mxVars, cfVars>>

\* the components that none of the earlier ones touches
moreVars == <<lateVars, lkVars, lgVars, rcVars, sdVars, vmVars, whVars>>

\* the variables of the other components
nonTM == <<moreVars, dcVars, prVars, stVars, smVars, rlVars, cvVars, cbVars>>
nonST == <<moreVars, dcVars, prVars, tmVars, smVars, rlVars, cvVars, cbVars>>
nonSM == <<moreVars, dcVars, prVars, tmVars, stVars, rlVars, cvVars, cbVars>>
nonRL == <<moreVars, dcVars, prVars, tmVars, stVars, smVars, cvVars, cbVars>>
nonCV == <<moreVars, dcVars, stVars, smVars, rlVars, cbVars, prVars>>
\* what a callback leaves alone
nonCB == <<moreVars, dcVars, tmVars, rlVars, cvVars, prVars>>
\* what a call of getDiscoveryDocument leaves alone
nonDC == <<moreVars, tmVars, smVars, rlVars, cvVars, cbVars, prVars>>
\* what a request to a protected route leaves alone
nonPR == <<moreVars, dcVars, tmVars, stVars, rlVars, cvVars, cbVars>>

vars == <<now, tmVars, stVars, smVars, rlVars, cvVars, cbVars, prVars, dcVars,
          moreVars>>

-----------------------------------------------------------------------------
(* Bounds *)
NThreads == 2
MaxCalls == 3
MaxTime == 1
MaxStateCalls == 5
MaxStates == 2
MaxSessions == 1
MaxSessionCalls == 4
MaxTTL == 1
MaxSessionTime == 2
MaxRate == 2
MaxBurst == 3
MaxInterval == 2
MaxAllow == 5
MaxLimiterTime == 3
MaxCacheCalls == 3
MaxCallbacks == 2
MaxLogins == 1
MaxRequests == 2
NCallers == 2
MaxDiscoveryCalls == 3
MaxWebhookCalls == 3
MaxWebhookTime == 1
MaxFanOut == 2
MaxConfigCalls == 3
MaxLockCalls == 3
MaxLockTime == 2
MaxLoginCalls == 3
MaxLoginTime == 1
MaxRepoCalls == 4
MaxStored == 2
MaxTextLen == 2
MaxRecipientIDs == 2

Threads == 1..NThreads

Min(a, b) == IF a < b THEN a ELSE b

-----------------------------------------------------------------------------
(* TokenManager: time is counted in seconds *)

TokenBufferTime == 300
ZeroTime == -1

AppIDs == {"idA", "idB"}
Secrets == {"sA", "sB"}
\* the credential pairs the configuration holds over time
Creds == {[id |-> "idA", secret |-> "sA"], [id |-> "idB", secret |-> "sB"]}
TokVals == {1}
ExpiresInVals == {300, 301, 3600, 7200}

\* A token string returned by the upstream, tagged with the credentials of the
\* request that obtained it; NoToken is the empty string.
Tokens == [id : AppIDs, secret : Secrets, v : TokVals]
NoToken == [id |-> "", secret |-> "", v |-> 0]
NoReq == [id |-> "", secret |-> ""]
NoRet == [tok |-> NoToken, err |-> FALSE, expired |-> FALSE]
\* later than any expiry the model stores: no token stored yet
Never == 2 * (MaxTime + 7200)

\* What the upstream can answer: a transport error, an unreadable or
\* unparsable body, or a decoded TokenResponse.
Responses(c) ==
    {[kind |-> k, tok |-> NoToken, expires_in |-> 0, errcode |-> 0] :
        k \in {"neterr", "badbody", "badjson"}}
    \cup
    {[kind |-> "json", tok |-> t, expires_in |-> e, errcode |-> ec] :
        t \in {[id |-> c.id, secret |-> c.secret, v |-> v] : v \in TokVals}
              \cup {NoToken},
        e \in ExpiresInVals, ec \in {0, 40013}}

\* The answers drawn where calls interleave: every failure, and a token whose
\* lifetime is either inside the buffer window or well beyond it.
ThreadResponses(c) ==
    {r \in Responses(c) : r.kind # "json" \/ r.expires_in \in {300, 7200}}

\* a freshness test that never passes: every call refreshes
FreshNever == FALSE

\* a freshness test that ignores the expiry
FreshIgnoresExpiry == accessToken # NoToken

\* tm.accessToken != "" && time.Now().Add(TokenBufferTime).Before(tm.expiresAt)
Fresh == accessToken # NoToken /\ now + TokenBufferTime < expiresAt

CanRLock == mu.w = 0

\* a mutex that excludes nobody
CanLockAlways == TRUE

\* tm.mu.Lock() can be acquired: no writer and no reader holds it
CanLock == mu.w = 0 /\ mu.r = {}

\* NewOIDCProvider: no discovery document, an empty state store.
InitST ==
    /\ discoveryDoc = FALSE
    /\ stateStore = <<>>
    /\ generated = {}
    /\ mintedAt = <<>>
    /\ vhist = <<>>
    /\ stCallsLeft = MaxStateCalls

\* the default session lifetime, 24 hours
DefaultTTL == 24

NoFound == [exists |-> FALSE, expiresAt |-> 0]
NoCall == [id |-> 0, ret |-> "none", start |-> "none"]

\* NewSessionManager(ttl): a zero ttl means the default; no sessions.
InitSM(d) ==
    /\ ttl = IF d = 0 THEN DefaultTTL ELSE d
    /\ sessions = <<>>
    /\ spc = [t \in Threads |-> "idle"]
    /\ sarg = [t \in Threads |-> 0]
    /\ sfound = [t \in Threads |-> NoFound]
    /\ last = NoCall
    /\ validated = {}
    /\ snow = [t \in Threads |-> 0]
    /\ sstatus = <<>>
    /\ sstart = [t \in Threads |-> "none"]
    /\ sCallsLeft = MaxSessionCalls

\* NewRateLimiter(rate, interval, burst): no key seen yet.
InitRL(r, i, b) ==
    /\ rate = r
    /\ interval = i
    /\ burst = b
    /\ tokens = <<>>
    /\ lastTime = <<>>
    /\ hist = <<>>

\* the caller has made no call; the cache was never written
NoRes == [op |-> "none", tok |-> NoToken, err |-> FALSE, expired |-> FALSE,
          upstream |-> "none"]
NoLifetime == 0

InitCV ==
    /\ res = NoRes
    /\ storedIn = NoLifetime
    /\ cCallsLeft = MaxCacheCalls

\* a request without the oauth_state cookie; an empty state parameter
NoStateCookie == -2
EmptyState == -1
NoRequest == [error |-> FALSE, code |-> FALSE, state |-> EmptyState,
              cookie |-> NoStateCookie]
NoUser == [sub |-> "", email |-> ""]
NoIDToken == [kind |-> "none", claims |-> NoUser]
NoCallback == [req |-> NoRequest, code |-> "none", net |-> {}, sid |-> 0,
               tok |-> NoIDToken, user |-> NoUser]

InitCB ==
    /\ cpc = [t \in Threads |-> "idle"]
    /\ creq = [t \in Threads |-> NoRequest]
    /\ ctok = [t \in Threads |-> NoIDToken]
    /\ cuser = [t \in Threads |-> NoUser]
    /\ cnet = [t \in Threads |-> {}]
    /\ clast = NoCallback
    /\ cmade = <<>>
    /\ cbLeft = MaxCallbacks

NoResponse == [cookie |-> 0, json |-> FALSE, status |-> 0, location |-> "",
               handled |-> FALSE, was |-> "none", expiresAt |-> 0]

\* the server started with cfg.DevMode = dev; no request answered yet
InitPR(dev) ==
    /\ devMode = dev
    /\ plast = NoResponse
    /\ pLeft = MaxRequests

Callers == 1..NCallers
NoThread == 0
NoReturn == [op |-> "none", err |-> FALSE]

\* NewOIDCProvider: discoveryMu unlocked, nobody inside getDiscoveryDocument
InitDC ==
    /\ dpc = [t \in Callers |-> "idle"]
    /\ dop = [t \in Callers |-> "none"]
    /\ darg = [t \in Callers |-> 0]
    /\ readers = {}
    /\ writer = NoThread
    /\ issued = 0
    /\ succeeded = 0
    /\ dlast = NoReturn
    /\ dLeft = MaxDiscoveryCalls

NoWebhook == [ip |-> "", auth |-> "none", rest |-> "none"]
NoAnswer == [req |-> NoWebhook, status |-> 0, code |-> ""]

\* the server is up and no webhook request has arrived
InitWH ==
    /\ wpc = [t \in Callers |-> "idle"]
    /\ wreq = [t \in Callers |-> NoWebhook]
    /\ wok = [t \in Callers |-> FALSE]
    /\ wlast = NoAnswer
    /\ wchecks = 0
    /\ wsends = 0
    /\ wLeft = MaxWebhookCalls

NoMessage == [title |-> <<>>, content |-> <<>>, ids |-> <<>>]
NotValidated == [valid |-> FALSE, errors |-> <<"none">>]

\* a request has been decoded and not yet validated
InitVM(r) ==
    /\ vreq = r
    /\ vres = NotValidated

NoSendResponse == [status |-> 0, code |-> "", sent |-> 0, failed |-> 0]

\* no send request has arrived
InitSD ==
    /\ sdpc = "idle"
    /\ sdids = <<>>
    /\ sddb = 0
    /\ sdpending = {}
    /\ sdtok = {}
    /\ sdposts = <<>>
    /\ sdresults = <<>>
    /\ sdresp = NoSendResponse

NoRecipient == [id |-> 0, openID |-> ""]
NoRepoCall == [op |-> "none", arg |-> NoRecipient, err |-> ""]

\* NewSQLiteRepository on an empty database
InitRC ==
    /\ rstore = <<>>
    /\ rnext = 1
    /\ rpc = [t \in Callers |-> "idle"]
    /\ rarg = [t \in Callers |-> NoRecipient]
    /\ rlast = NoRepoCall
    /\ rLeft = MaxRepoCalls

NoLogin == [status |-> 0, code |-> "", cookie |-> 0, location |-> ""]
FullConfig == [provider |-> "https://idp", client |-> "id", secret |-> "s"]

\* the server started with this OIDC configuration
InitLG(cfg) ==
    /\ lgcfg = cfg
    /\ lglast = NoLogin
    /\ lgLeft = MaxLoginCalls

\* every goroutine is outside the session manager and sm.mu is free
InitLK ==
    /\ lkpc = [t \in Callers |-> "idle"]
    /\ lkarg = [t \in Callers |-> 0]
    /\ lkfound = [t \in Callers |-> NoFound]
    /\ lkmu = [w |-> NoThread, r |-> {}]
    /\ lkLeft = MaxLockCalls

\* SendMessageToMultiple has not been called
InitMX ==
    /\ mxpc = "idle"
    /\ mxids = <<>>
    /\ mxgo = <<>>
    /\ mxchan = <<>>
    /\ mxgot = 0
    /\ mxresults = <<>>

NoConfig == [id |-> "", secret |-> "", saved |-> FALSE]
NoSave == [req |-> NoConfig, status |-> 0, code |-> ""]

\* main: the TokenManager starts with the credentials of the config table
InitCF ==
    /\ cfstore = [id |-> "idA", secret |-> "sA"]
    /\ cfpc = [t \in Callers |-> "idle"]
    /\ cfreq = [t \in Callers |-> NoConfig]
    /\ cfquiet = [t \in Callers |-> FALSE]
    /\ cflast = NoSave
    /\ cfLeft = MaxConfigCalls

InitLate ==
    /\ InitMX
    /\ InitCF

InitMore ==
    /\ InitLate
    /\ InitLK
    /\ InitLG(FullConfig)
    /\ InitRC
    /\ InitSD
    /\ InitVM(NoMessage)
    /\ InitWH

InitTM ==
    /\ appID = "idA"
    /\ appSecret = "sA"
    /\ accessToken = NoToken
    /\ expiresAt = ZeroTime
    /\ mu = [w |-> 0, r |-> {}]
    /\ pc = [t \in Threads |-> "idle"]
    /\ op = [t \in Threads |-> "none"]
    /\ req = [t \in Threads |-> NoReq]
    /\ ret = [t \in Threads |-> NoRet]
    /\ path = [t \in Threads |-> "none"]
    /\ callsLeft = MaxCalls
    /\ reqCount = 0
    /\ minStored = Never
    /\ failed = FALSE
    /\ updPending = FALSE
    /\ lastUpd = NoReq
    /\ updFresh = FALSE
    /\ updWaited = FALSE

Init ==
    /\ now = 0
    /\ InitTM
    /\ InitST
    /\ InitSM(DefaultTTL)
    /\ InitRL(1, 1, 1)
    /\ InitCV
    /\ InitCB
    /\ InitPR(FALSE)
    /\ InitDC
    /\ InitMore

\* A thread enters one of the methods.
Call(t, name, entry) ==
    /\ pc[t] = "idle"
    /\ callsLeft > 0
    /\ callsLeft' = callsLeft - 1
    /\ pc' = [pc EXCEPT ![t] = entry]
    /\ op' = [op EXCEPT ![t] = name]
    /\ path' = [path EXCEPT ![t] = "none"]
    /\ ret' = [ret EXCEPT ![t] = NoRet]
    /\ req' = [req EXCEPT ![t] = NoReq]
    /\ UNCHANGED <<now, appID, appSecret, accessToken, expiresAt, mu, reqCount,
                   minStored, failed, updPending, lastUpd, updFresh, updWaited,
                   nonTM>>

CallGetAccessToken(t) == Call(t, "GetAccessToken", "ga_rlock")
CallForceRefresh(t) == Call(t, "ForceRefresh", "fr_lock")
CallIsExpired(t) == Call(t, "IsExpired", "ie_rlock")
CallUpdateCredentials(t) == Call(t, "UpdateCredentials", "uc_lock")

\* GetAccessToken: tm.mu.RLock()
GA_RLock(t) ==
    /\ pc[t] = "ga_rlock"
    /\ CanRLock
    /\ mu' = [mu EXCEPT !.r = @ \cup {t}]
    /\ pc' = [pc EXCEPT ![t] = "ga_fast"]
    /\ UNCHANGED <<now, appID, appSecret, accessToken, expiresAt, req, ret,
                   path, callsLeft, reqCount, minStored, failed, updPending,
                   lastUpd, op, updFresh, updWaited,
                   nonTM>>

\* GetAccessToken: the fast path, then RUnlock; refreshToken otherwise.
GA_Fast(t) ==
    /\ pc[t] = "ga_fast"
    /\ mu' = [mu EXCEPT !.r = @ \ {t}]
    /\ IF Fresh
         THEN /\ ret' = [ret EXCEPT ![t] = [tok |-> accessToken, err |-> FALSE, expired |-> FALSE]]
              /\ path' = [path EXCEPT ![t] = "fast"]
              /\ pc' = [pc EXCEPT ![t] = "idle"]
         ELSE /\ pc' = [pc EXCEPT ![t] = "rt_lock"]
              /\ UNCHANGED <<ret, path>>
    /\ UNCHANGED <<now, appID, appSecret, accessToken, expiresAt, req,
                   callsLeft, reqCount, minStored, failed, updPending, lastUpd,
                   op, updFresh, updWaited,
                   nonTM>>

\* refreshToken: tm.mu.Lock()
RT_Lock(t) ==
    /\ pc[t] = "rt_lock"
    /\ CanLock
    /\ mu' = [mu EXCEPT !.w = t]
    /\ pc' = [pc EXCEPT ![t] = "rt_check"]
    /\ UNCHANGED <<now, appID, appSecret, accessToken, expiresAt, req, ret,
                   path, callsLeft, reqCount, minStored, failed, updPending,
                   lastUpd, op, updFresh, updWaited,
                   nonTM>>

\* a refreshToken without the double check: it always sends the request
RT_CheckNoDoubleCheck(t) ==
    /\ pc[t] = "rt_check"
    /\ req' = [req EXCEPT ![t] = [id |-> appID, secret |-> appSecret]]
    /\ reqCount' = reqCount + 1
    /\ updPending' = FALSE
    /\ pc' = [pc EXCEPT ![t] = "rt_wait"]
    /\ UNCHANGED <<now, appID, appSecret, accessToken, expiresAt, ret, path, mu,
                   callsLeft, minStored, failed, lastUpd, op, updFresh, updWaited,
                   nonTM>>

\* refreshToken: the double check; if it fails the URL is built from the
\* current credentials and the request is sent.
RT_Check(t) ==
    /\ pc[t] = "rt_check"
    /\ IF Fresh
         THEN /\ ret' = [ret EXCEPT ![t] = [tok |-> accessToken, err |-> FALSE, expired |-> FALSE]]
              /\ path' = [path EXCEPT ![t] = "recheck"]
              /\ mu' = [mu EXCEPT !.w = 0]
              /\ pc' = [pc EXCEPT ![t] = "idle"]
              /\ UNCHANGED <<req, reqCount, updPending>>
         ELSE /\ req' = [req EXCEPT ![t] = [id |-> appID, secret |-> appSecret]]
              /\ reqCount' = reqCount + 1
              /\ updPending' = FALSE
              /\ pc' = [pc EXCEPT ![t] = "rt_wait"]
              /\ UNCHANGED <<ret, path, mu>>
    /\ UNCHANGED <<now, appID, appSecret, accessToken, expiresAt, callsLeft,
                   minStored, failed, lastUpd, op, updFresh, updWaited,
                   nonTM>>

\* refreshToken: the upstream answers; the deferred Unlock runs on return.
RT_Response(t) ==
    /\ pc[t] = "rt_wait"
    /\ \E resp \in ThreadResponses(req[t]) :
         IF resp.kind = "json" /\ resp.errcode = 0 /\ resp.tok # NoToken
           THEN /\ accessToken' = resp.tok
                /\ expiresAt' = now + resp.expires_in
                /\ ret' = [ret EXCEPT ![t] = [tok |-> resp.tok, err |-> FALSE, expired |-> FALSE]]
                /\ minStored' = Min(minStored, now + resp.expires_in)
                /\ UNCHANGED failed
           ELSE /\ ret' = [ret EXCEPT ![t] = [tok |-> NoToken, err |-> TRUE, expired |-> FALSE]]
                /\ failed' = TRUE
                /\ UNCHANGED <<accessToken, expiresAt, minStored>>
    /\ path' = [path EXCEPT ![t] = "request"]
    /\ req' = [req EXCEPT ![t] = NoReq]
    /\ mu' = [mu EXCEPT !.w = 0]
    /\ pc' = [pc EXCEPT ![t] = "idle"]
    /\ updWaited' = (updWaited \/ \E u \in Threads : pc[u] = "uc_lock")
    /\ UNCHANGED <<now, appID, appSecret, callsLeft, reqCount, updPending,
                   lastUpd, op, updFresh, nonTM>>

\* ForceRefresh: Lock, clear the cache, Unlock; then refreshToken.
FR_Clear(t) ==
    /\ pc[t] = "fr_lock"
    /\ CanLock
    /\ accessToken' = NoToken
    /\ expiresAt' = ZeroTime
    /\ pc' = [pc EXCEPT ![t] = "rt_lock"]
    /\ UNCHANGED <<now, appID, appSecret, mu, req, ret, path, callsLeft,
                   reqCount, minStored, failed, updPending, lastUpd, op,
                   updFresh, updWaited,
                   nonTM>>

\* IsExpired: tm.mu.RLock()
IE_RLock(t) ==
    /\ pc[t] = "ie_rlock"
    /\ CanRLock
    /\ mu' = [mu EXCEPT !.r = @ \cup {t}]
    /\ pc' = [pc EXCEPT ![t] = "ie_read"]
    /\ UNCHANGED <<now, appID, appSecret, accessToken, expiresAt, req, ret,
                   path, callsLeft, reqCount, minStored, failed, updPending,
                   lastUpd, op, updFresh, updWaited,
                   nonTM>>

\* an IsExpired without the buffer window
IsExpiredNoBuffer == accessToken = NoToken \/ now > expiresAt

\* tm.accessToken == "" || time.Now().Add(TokenBufferTime).After(tm.expiresAt)
IsExpiredValue == accessToken = NoToken \/ now + TokenBufferTime > expiresAt

IE_Read(t) ==
    /\ pc[t] = "ie_read"
    /\ mu' = [mu EXCEPT !.r = @ \ {t}]
    /\ ret' = [ret EXCEPT ![t] = [tok |-> NoToken, err |-> FALSE, expired |-> IsExpiredValue]]
    /\ path' = [path EXCEPT ![t] = "isexpired"]
    /\ pc' = [pc EXCEPT ![t] = "idle"]
    /\ UNCHANGED <<now, appID, appSecret, accessToken, expiresAt, req,
                   callsLeft, reqCount, minStored, failed, updPending, lastUpd,
                   op, updFresh, updWaited,
                   nonTM>>

\* an UpdateCredentials that keeps the cached token
UpdateCredentialsKeepCache(t, id, secret) ==
    /\ pc[t] = "uc_lock"
    /\ CanLock
    /\ appID' = id
    /\ appSecret' = secret
    /\ updPending' = TRUE
    /\ updFresh' = Fresh
    /\ lastUpd' = [id |-> id, secret |-> secret]
    /\ path' = [path EXCEPT ![t] = "update"]
    /\ pc' = [pc EXCEPT ![t] = "idle"]
    /\ UNCHANGED <<now, accessToken, expiresAt, mu, req, ret, callsLeft,
                   reqCount, minStored, failed, op, updWaited, nonTM>>

\* UpdateCredentials: Lock, replace the credentials, clear the cache, Unlock.
UpdateCredentials(t, id, secret) ==
    /\ pc[t] = "uc_lock"
    /\ CanLock
    /\ appID' = id
    /\ appSecret' = secret
    /\ accessToken' = NoToken
    /\ expiresAt' = ZeroTime
    /\ updPending' = TRUE
    /\ updFresh' = Fresh
    /\ lastUpd' = [id |-> id, secret |-> secret]
    /\ path' = [path EXCEPT ![t] = "update"]
    /\ pc' = [pc EXCEPT ![t] = "idle"]
    /\ UNCHANGED <<now, mu, req, ret, callsLeft, reqCount, minStored, failed,
                   op, updWaited, nonTM>>

UC_Update(t) == \E c \in Creds : UpdateCredentials(t, c.id, c.secret)

Tick ==
    /\ now < MaxTime
    /\ now' = now + 1
    /\ UNCHANGED <<tmVars, nonTM>>

Next ==
    \/ \E t \in Threads : CallGetAccessToken(t)
    \/ \E t \in Threads : CallForceRefresh(t)
    \/ \E t \in Threads : CallIsExpired(t)
    \/ \E t \in Threads : CallUpdateCredentials(t)
    \/ \E t \in Threads : GA_RLock(t)
    \/ \E t \in Threads : GA_Fast(t)
    \/ \E t \in Threads : RT_Lock(t)
    \/ \E t \in Threads : RT_Check(t)
    \/ \E t \in Threads : RT_Response(t)
    \/ \E t \in Threads : FR_Clear(t)
    \/ \E t \in Threads : IE_RLock(t)
    \/ \E t \in Threads : IE_Read(t)
    \/ \E t \in Threads : UC_Update(t)
    \/ Tick

Spec == Init /\ [][Next]_vars

\* the threads whose upstream token request is in flight
InFlight == {t \in Threads : pc[t] = "rt_wait"}

\* C2: in every reachable state at most one upstream token request is in
\* flight, whatever mix of GetAccessToken, ForceRefresh, UpdateCredentials
\* and IsExpired calls runs concurrently.
C2_AtMostOneInFlight == Cardinality(InFlight) <= 1

\* one request in flight while another refresher waits for the lock
C2_Witness ==
    \E t, u \in Threads :
        /\ t # u
        /\ pc[t] = "rt_wait"
        /\ pc[u] = "rt_lock"
        /\ op[t] # op[u]

\* a GetAccessToken that returns a token in this step
ReturnsToken(t) ==
    /\ op[t] = "GetAccessToken"
    /\ pc[t] # "idle"
    /\ pc'[t] = "idle"
    /\ ~ret'[t].err

\* C10: UpdateCredentials(id, secret) leaves the cache empty and the new
\* credentials in place; from then on no GetAccessToken returns a token
\* before an upstream request has been sent, and that request is built from
\* the new id and secret.
C10_UpdateCredentialsInvalidates ==
    [][/\ \A t \in Threads :
            (pc[t] = "uc_lock" /\ pc'[t] = "idle") =>
                /\ accessToken' = NoToken
                /\ expiresAt' = ZeroTime
                /\ appID' = lastUpd'.id
                /\ appSecret' = lastUpd'.secret
       /\ updPending => \A t \in Threads : ~ReturnsToken(t)
       /\ (updPending /\ reqCount' = reqCount + 1) =>
            \E t \in Threads : pc'[t] = "rt_wait" /\ req'[t] = lastUpd
      ]_vars

\* the credentials were replaced while a fresh token was cached, and the
\* next GetAccessToken has sent a request carrying the new credentials
C10_Witness ==
    /\ updFresh
    /\ ~updPending
    /\ reqCount = 2
    /\ lastUpd = [id |-> "idB", secret |-> "sB"]
    /\ \E t \in Threads :
          /\ op[t] = "GetAccessToken"
          /\ pc[t] = "rt_wait"
          /\ req[t] = lastUpd

\* the credentials of the upstream request that obtained a token
CredsOf(tok) == [id |-> tok.id, secret |-> tok.secret]

\* C38: once an UpdateCredentials(id, secret) has returned, the cache never
\* holds a token fetched with other credentials, and every GetAccessToken
\* that returns a token from then on (until the next UpdateCredentials)
\* returns one obtained by a request carrying id and secret, also when a
\* refresh with the old credentials was in flight while UpdateCredentials
\* waited for the lock.  A call returns in the step in which it releases the
\* lock, so "later" is the order of the critical sections.
C38_NoOldTokenAfterUpdate ==
    [][/\ (lastUpd' # NoReq /\ accessToken' # NoToken) =>
            CredsOf(accessToken') = lastUpd'
       /\ \A t \in Threads :
            (ReturnsToken(t) /\ lastUpd # NoReq) =>
                CredsOf(ret'[t].tok) = lastUpd
      ]_vars

\* a refresh carrying idA ended while UpdateCredentials(idB, sB) waited for
\* the lock, and a later GetAccessToken has fetched and returned a token
\* obtained with idB, which is the cached one
C38_Witness ==
    /\ updWaited
    /\ failed = FALSE
    /\ lastUpd = [id |-> "idB", secret |-> "sB"]
    /\ reqCount = 2
    /\ \E t \in Threads :
          /\ op[t] = "GetAccessToken"
          /\ pc[t] = "idle"
          /\ path[t] = "request"
          /\ CredsOf(ret[t].tok) = lastUpd
          /\ accessToken = ret[t].tok

\* C22: every ForceRefresh call that has returned performed an upstream
\* token request of its own, whatever ran concurrently with it.
C22_ForceRefreshAlwaysRequests ==
    \A t \in Threads :
        (op[t] = "ForceRefresh" /\ pc[t] = "idle") => path[t] = "request"

-----------------------------------------------------------------------------
(* N concurrent GetAccessToken calls on a cache that is not fresh *)

\* a token that was cached earlier and is now inside the buffer window
StaleToken == [id |-> "idA", secret |-> "sA", v |-> 0]

InitHerd ==
    /\ now = 0
    /\ InitST
    /\ InitSM(DefaultTTL)
    /\ InitRL(1, 1, 1)
    /\ InitCV
    /\ InitCB
    /\ InitPR(FALSE)
    /\ InitDC
    /\ InitMore
    /\ appID = "idA"
    /\ appSecret = "sA"
    /\ \/ accessToken = NoToken /\ expiresAt = ZeroTime
       \/ accessToken = StaleToken /\ expiresAt = TokenBufferTime
    /\ mu = [w |-> 0, r |-> {}]
    /\ pc = [t \in Threads |-> "idle"]
    /\ op = [t \in Threads |-> "none"]
    /\ req = [t \in Threads |-> NoReq]
    /\ ret = [t \in Threads |-> NoRet]
    /\ path = [t \in Threads |-> "none"]
    /\ callsLeft = NThreads
    /\ reqCount = 0
    /\ minStored = Never
    /\ failed = FALSE
    /\ updPending = FALSE
    /\ lastUpd = NoReq
    /\ updFresh = FALSE
    /\ updWaited = FALSE

\* each thread calls GetAccessToken once
HerdCall(t) == op[t] = "none" /\ CallGetAccessToken(t)

NextHerd ==
    \/ \E t \in Threads : HerdCall(t)
    \/ \E t \in Threads : GA_RLock(t)
    \/ \E t \in Threads : GA_Fast(t)
    \/ \E t \in Threads : RT_Lock(t)
    \/ \E t \in Threads : RT_Check(t)
    \/ \E t \in Threads : RT_Response(t)
    \/ Tick

SpecHerd == InitHerd /\ [][NextHerd]_vars

HerdDone == \A t \in Threads : op[t] = "GetAccessToken" /\ pc[t] = "idle"

-----------------------------------------------------------------------------
(* TokenManager used by a single caller: each call is one step *)

\* the caller of this section
Caller == 1

\* The instants the clock visits: around the storing of a token and around
\* the point five minutes before a two-hour token expires.
CacheInstants == {0, 1, 7200 - TokenBufferTime - 1, 7200 - TokenBufferTime,
                  7200 - TokenBufferTime + 1, 7200}

\* SetToken arguments: an already expired token, tokens at and just past the
\* buffer window, a two-hour token; the token string may be empty.
SetTokenLifetimes == {-1, TokenBufferTime, TokenBufferTime + 1, 7200}
SetTokenValues == {StaleToken, NoToken}

\* the fields of TokenManager no step of this section touches
tmRest == <<mu, pc, op, req, ret, path, callsLeft, updPending, lastUpd, updFresh,
            updWaited>>

\* refreshToken: how the upstream's answer is classified
Upstream(resp) ==
    IF resp.kind # "json" THEN resp.kind
    ELSE IF resp.errcode # 0 THEN "errcode"
    ELSE IF resp.tok = NoToken THEN "empty"
    ELSE "ok"

\* a refreshToken that empties the cache when the upstream fails
RefreshOutcomeClears(resp) ==
    IF Upstream(resp) = "ok"
      THEN [tok |-> resp.tok, exp |-> now + resp.expires_in, life |-> resp.expires_in,
            ret |-> resp.tok, err |-> FALSE]
      ELSE [tok |-> NoToken, exp |-> ZeroTime, life |-> NoLifetime,
            ret |-> NoToken, err |-> TRUE]

\* refreshToken after the request: the cache it leaves and what it returns
RefreshOutcome(resp) ==
    IF Upstream(resp) = "ok"
      THEN [tok |-> resp.tok, exp |-> now + resp.expires_in, life |-> resp.expires_in,
            ret |-> resp.tok, err |-> FALSE]
      ELSE [tok |-> accessToken, exp |-> expiresAt, life |-> storedIn,
            ret |-> NoToken, err |-> TRUE]

\* GetAccessToken() run by a single caller: the fast path, or refreshToken
\* (whose double check sees the same cache) with the upstream's answer.
GetAccessToken ==
    /\ cCallsLeft > 0
    /\ cCallsLeft' = cCallsLeft - 1
    /\ IF Fresh
         THEN /\ res' = [op |-> "GetAccessToken", tok |-> accessToken, err |-> FALSE,
                         expired |-> FALSE, upstream |-> "none"]
              /\ UNCHANGED <<accessToken, expiresAt, storedIn, reqCount, failed,
                             minStored>>
         ELSE \E resp \in Responses([id |-> appID, secret |-> appSecret]) :
                LET o == RefreshOutcome(resp) IN
                /\ accessToken' = o.tok
                /\ expiresAt' = o.exp
                /\ storedIn' = o.life
                /\ res' = [op |-> "GetAccessToken", tok |-> o.ret, err |-> o.err,
                           expired |-> FALSE, upstream |-> Upstream(resp)]
                /\ reqCount' = reqCount + 1
                /\ failed' = (failed \/ o.err)
                /\ minStored' = IF o.err THEN minStored ELSE Min(minStored, o.exp)
    /\ UNCHANGED <<now, appID, appSecret, tmRest, nonCV>>

\* ForceRefresh() run by a single caller: the cache is cleared, then
\* refreshToken finds it empty at the double check and sends the request; a
\* failed request returns before anything is stored.
ForceRefresh ==
    /\ cCallsLeft > 0
    /\ cCallsLeft' = cCallsLeft - 1
    /\ \E resp \in Responses([id |-> appID, secret |-> appSecret]) :
         LET o == RefreshOutcome(resp) IN
         /\ accessToken' = IF o.err THEN NoToken ELSE o.tok
         /\ expiresAt' = IF o.err THEN ZeroTime ELSE o.exp
         /\ storedIn' = IF o.err THEN NoLifetime ELSE o.life
         /\ res' = [op |-> "ForceRefresh", tok |-> o.ret, err |-> o.err,
                    expired |-> FALSE, upstream |-> Upstream(resp)]
         /\ reqCount' = reqCount + 1
         /\ failed' = (failed \/ o.err)
         /\ minStored' = IF o.err THEN minStored ELSE Min(minStored, o.exp)
    /\ UNCHANGED <<now, appID, appSecret, tmRest, nonCV>>

\* IsExpired() run by a single caller.
IsExpired ==
    /\ cCallsLeft > 0
    /\ cCallsLeft' = cCallsLeft - 1
    /\ res' = [op |-> "IsExpired", tok |-> NoToken, err |-> FALSE,
               expired |-> IsExpiredValue, upstream |-> "none"]
    /\ UNCHANGED <<now, appID, appSecret, accessToken, expiresAt, storedIn,
                   reqCount, failed, minStored, tmRest, nonCV>>

\* SetToken(token, expiresIn)
SetToken(token, expiresIn) ==
    /\ cCallsLeft > 0
    /\ cCallsLeft' = cCallsLeft - 1
    /\ accessToken' = token
    /\ expiresAt' = now + expiresIn
    /\ storedIn' = expiresIn
    /\ res' = [NoRes EXCEPT !.op = "SetToken"]
    /\ UNCHANGED <<now, appID, appSecret, reqCount, failed, minStored, tmRest,
                   nonCV>>

CallSetToken == \E token \in SetTokenValues, expiresIn \in SetTokenLifetimes :
                    SetToken(token, expiresIn)

TickCache ==
    /\ \E t \in CacheInstants : t > now /\ now' = t
    /\ UNCHANGED <<tmVars, cvVars, nonCV>>

NextCache ==
    \/ GetAccessToken
    \/ ForceRefresh
    \/ IsExpired
    \/ CallSetToken
    \/ TickCache

SpecCache == Init /\ [][NextCache]_vars

\* the step is a call of the named method by the single caller
CacheStep(name) == cCallsLeft' = cCallsLeft - 1 /\ res'.op = name

\* C11: when the refresh triggered by GetAccessToken fails (transport error,
\* unreadable or unparsable body, non-zero errcode, empty access_token), the
\* call returns an error and no token, the cached token and expiry are what
\* they were before the call, and a GetAccessToken that follows a failed one
\* sends the upstream request again.
C11_FailedRefreshKeepsCache ==
    [][/\ (CacheStep("GetAccessToken") /\ res'.upstream \notin {"none", "ok"}) =>
            /\ res'.err
            /\ res'.tok = NoToken
            /\ accessToken' = accessToken
            /\ expiresAt' = expiresAt
       /\ (CacheStep("GetAccessToken") /\ res'.err) =>
            res'.upstream \in {"neterr", "badbody", "badjson", "errcode", "empty"}
       /\ (CacheStep("GetAccessToken") /\ res.op = "GetAccessToken" /\ res.err) =>
            /\ res'.upstream # "none"
            /\ reqCount' = reqCount + 1
      ]_vars

\* two requests were made, the last answer carried no token, and the cache
\* still holds the expired token that SetToken put there
C11_Witness ==
    /\ res.op = "GetAccessToken"
    /\ res.err
    /\ res.upstream = "empty"
    /\ reqCount = 2
    /\ accessToken = StaleToken
    /\ storedIn = -1

\* C12: IsExpired() returns true exactly when GetAccessToken would leave the
\* fast path, i.e. IsExpired() = ~(token non-empty /\ now + buffer < expiresAt),
\* the boundary now + buffer = expiresAt included.
C12_IsExpiredMatchesFastPath ==
    [][CacheStep("IsExpired") =>
          (res'.expired <=>
              ~(accessToken # NoToken /\ now + TokenBufferTime < expiresAt))
      ]_vars

\* C13: a token stored with a lifetime of 7200 seconds is reported not
\* expired right after it is stored and at every time before expiry - 5
\* minutes, and expired at every time after expiry - 5 minutes.
C13_TwoHourTokenExpiry ==
    [][/\ (storedIn' = 7200 /\ accessToken' # NoToken
             /\ <<accessToken, expiresAt>> # <<accessToken', expiresAt'>>) =>
            ~IsExpiredValue'
       /\ (CacheStep("IsExpired") /\ storedIn = 7200 /\ accessToken # NoToken) =>
            /\ now < expiresAt - TokenBufferTime => ~res'.expired
            /\ now > expiresAt - TokenBufferTime => res'.expired
      ]_vars

\* a two-hour token obtained from the upstream is reported expired one second
\* after the buffer window opened
C13_Witness ==
    /\ res.op = "IsExpired"
    /\ res.expired
    /\ storedIn = 7200
    /\ accessToken.v \in TokVals
    /\ now = expiresAt - TokenBufferTime + 1

\* C14: when the cached token is expired, GetAccessToken sends an upstream
\* request; if the answer carries a token with expires_in between 3600 and
\* 7200 seconds the call returns that token, which is now the cached one, and
\* IsExpired() is false afterwards.
C14_ExpiredTokenIsRefreshed ==
    [][(CacheStep("GetAccessToken") /\ IsExpiredValue) =>
          /\ res'.upstream # "none"
          /\ reqCount' = reqCount + 1
          /\ (res'.upstream = "ok" /\ storedIn' \in 3600..7200) =>
                /\ ~res'.err
                /\ res'.tok.v \in TokVals
                /\ res'.tok = accessToken'
                /\ expiresAt' = now + storedIn'
                /\ ~IsExpiredValue'
      ]_vars

\* a first token was obtained, it expired, and a second request replaced it
\* with a one-hour token
C14_Witness ==
    /\ res.op = "GetAccessToken"
    /\ res.upstream = "ok"
    /\ storedIn = 3600
    /\ reqCount = 2
    /\ ~failed
    /\ res.tok = accessToken
    /\ minStored + storedIn < expiresAt + TokenBufferTime
    /\ ~IsExpiredValue

\* C15: when the cached token is non-empty and now + 5 minutes is before its
\* expiry, GetAccessToken returns the cached token, makes no upstream
\* request and leaves token, expiry and credentials unchanged.
C15_FastPathFrame ==
    [][(CacheStep("GetAccessToken")
          /\ accessToken # NoToken /\ now + TokenBufferTime < expiresAt) =>
          /\ res'.tok = accessToken
          /\ ~res'.err
          /\ res'.upstream = "none"
          /\ reqCount' = reqCount
          /\ UNCHANGED <<accessToken, expiresAt, appID, appSecret>>
      ]_vars

\* the token that SetToken cached is returned without any request
C15_Witness ==
    /\ res.op = "GetAccessToken"
    /\ res.tok = StaleToken
    /\ res.upstream = "none"
    /\ accessToken = StaleToken
    /\ now + TokenBufferTime < expiresAt
    /\ reqCount = 0

\* C30: when the upstream request made by ForceRefresh fails, the token
\* cache is what it was before the call, so that a token that was fresh
\* before the call is still served without an upstream request.
C30_FailedForceRefreshKeepsCache ==
    [][(CacheStep("ForceRefresh") /\ res'.err
          /\ accessToken # NoToken /\ now + TokenBufferTime < expiresAt) =>
          /\ accessToken' = accessToken
          /\ expiresAt' = expiresAt
      ]_vars

\* C39: after a refresh that succeeded, whatever expires_in the upstream
\* returned, the stored token is fresh, and a GetAccessToken that follows
\* with no time passed takes the fast path and sends no upstream request.
C39_RefreshedTokenIsFresh ==
    [][/\ ((CacheStep("GetAccessToken") \/ CacheStep("ForceRefresh"))
             /\ res'.upstream = "ok") => Fresh'
       /\ (CacheStep("GetAccessToken") /\ res.upstream = "ok"
             /\ expiresAt = now + storedIn) =>
            /\ res'.upstream = "none"
            /\ reqCount' = reqCount
      ]_vars

-----------------------------------------------------------------------------
(* OIDCProvider pending-state store: time is counted in seconds *)

StateTTL == 600

\* GenerateState returns 16 random bytes: a value never handed out before.
StateValues == 1..MaxStates
\* A state value that no login ever generated (a forged or stale parameter).
Bogus == 0

\* The instants the clock visits: around the storing of a state value and
\* around its expiry.
StateInstants == {0, 1, StateTTL - 1, StateTTL, StateTTL + 1, StateTTL + 2}

\* GenerateState (called by Login) followed by GetAuthorizationURL(state):
\* the discovery document is taken from the cache or fetched (the fetch may
\* fail, and then nothing is stored); the state is stored with its expiry.
GetAuthorizationURL(state, fetchOK) ==
    /\ stCallsLeft > 0
    /\ stCallsLeft' = stCallsLeft - 1
    /\ state \notin generated
    /\ generated' = generated \cup {state}
    /\ IF discoveryDoc \/ fetchOK
         THEN /\ discoveryDoc' = TRUE
              /\ stateStore' = (state :> (now + StateTTL)) @@ stateStore
              /\ mintedAt' = (state :> now) @@ mintedAt
              /\ vhist' = (state :> <<>>) @@ vhist
         ELSE UNCHANGED <<discoveryDoc, stateStore, mintedAt, vhist>>
    /\ UNCHANGED <<now, nonST>>

Login == \E state \in StateValues, fetchOK \in BOOLEAN : GetAuthorizationURL(state, fetchOK)

\* a ValidateState that forgets to consume the state
StoreAfterValidateKept(state) == stateStore

\* a ValidateState that consumes the state only when it is still valid
StoreAfterValidateIfValid(state) ==
    IF now < stateStore[state]
      THEN [s \in (DOMAIN stateStore) \ {state} |-> stateStore[s]]
      ELSE stateStore

\* The store after ValidateState(state): delete(p.stateStore, state).
StoreAfterValidate(state) ==
    [s \in (DOMAIN stateStore) \ {state} |-> stateStore[s]]

\* ValidateState(state), the whole call under p.stateMu.Lock().
ValidateStateResult(state) ==
    IF state \notin DOMAIN stateStore THEN FALSE ELSE now < stateStore[state]

ValidateState(state) ==
    /\ stCallsLeft > 0
    /\ stCallsLeft' = stCallsLeft - 1
    /\ stateStore' = IF state \in DOMAIN stateStore
                        THEN StoreAfterValidate(state)
                        ELSE stateStore
    /\ vhist' = IF state \in DOMAIN vhist
                   THEN [vhist EXCEPT ![state] =
                           Append(@, [t |-> now, ok |-> ValidateStateResult(state)])]
                   ELSE vhist
    /\ UNCHANGED <<now, discoveryDoc, generated, mintedAt, nonST>>

Validate == \E state \in generated \cup {Bogus} : ValidateState(state)

TickState ==
    /\ \E t \in StateInstants : t > now /\ now' = t
    /\ UNCHANGED <<stVars, nonST>>

NextState ==
    \/ Login
    \/ Validate
    \/ TickState

SpecState == Init /\ [][NextState]_vars

\* C3: for every state value stored by GetAuthorizationURL, at most one
\* ValidateState call with it returns true: the first call returns true
\* exactly when it happens before the 10-minute expiry, every later call
\* returns false.
C3_StateValidatedAtMostOnce ==
    \A s \in DOMAIN vhist :
        /\ Cardinality({i \in 1..Len(vhist[s]) : vhist[s][i].ok}) <= 1
        /\ \A i \in 1..Len(vhist[s]) :
              vhist[s][i].ok <=> (i = 1 /\ vhist[s][1].t < mintedAt[s] + StateTTL)

\* a state value validated in time, then presented again and refused
C3_Witness ==
    \E s \in DOMAIN vhist :
        /\ Len(vhist[s]) >= 2
        /\ vhist[s][1].ok
        /\ ~vhist[s][2].ok
        /\ vhist[s][2].t < mintedAt[s] + StateTTL

\* the step is a ValidateState call (Login is the call that generates a state)
ValidateStep == stCallsLeft' = stCallsLeft - 1 /\ generated' = generated

\* C23: ValidateState(state) removes the entry for state whenever it
\* exists, whether it returns true (not yet expired) or false (now >=
\* expiry), and removes nothing else; a call for an absent state returns
\* false and changes nothing.
C23_StateConsumedRegardless ==
    [][ValidateStep =>
          \/ \E s \in DOMAIN stateStore :
                /\ stateStore' = [x \in (DOMAIN stateStore) \ {s} |-> stateStore[x]]
                /\ vhist' = [vhist EXCEPT ![s] =
                               Append(@, [t |-> now, ok |-> now < stateStore[s]])]
          \/ /\ stateStore' = stateStore
             /\ \/ vhist' = vhist
                \/ \E s \in (DOMAIN vhist) \ DOMAIN stateStore :
                      vhist' = [vhist EXCEPT ![s] = Append(@, [t |-> now, ok |-> FALSE])]
      ]_vars

\* a state presented at the instant it expires was refused and is gone from
\* the store, and presenting it again was refused too
C23_Witness ==
    \E s \in DOMAIN vhist :
        /\ Len(vhist[s]) >= 2
        /\ ~vhist[s][1].ok
        /\ vhist[s][1].t = mintedAt[s] + StateTTL
        /\ s \notin DOMAIN stateStore

-----------------------------------------------------------------------------
(* SessionManager: time is counted in hours *)

\* generateSessionID returns 32 random bytes: an id never issued before.
SessionIDs == 1..MaxSessions
\* A session id that CreateSession never issued.
BogusID == 0
\* A request without a session cookie (or with an empty one).
NoCookie == -1

Status(id) == IF id \in DOMAIN sstatus THEN sstatus[id] ELSE "unknown"

\* the ids a caller can present: those CreateSession returned, or a made-up one
KnownIDs == (DOMAIN sstatus) \cup {BogusID}

\* ValidateSession(id): GetSession(id) != nil
ValidateSession(session) == session # "nil"

\* AuthMiddleware: 401 without a cookie or when GetSession(cookie) is nil,
\* otherwise the request goes on to the handler.
AuthMiddleware(cookie, session) ==
    IF cookie = NoCookie \/ session = "nil" THEN "401" ELSE "next"

\* CreateSession: a fresh id, expiresAt = now + ttl, stored under the lock;
\* it fails only when the random source fails.  The ids are random and
\* interchangeable: they are numbered in the order they are issued.
CreateSession(t, id, randOK) ==
    /\ spc[t] = "idle"
    /\ id \notin DOMAIN sstatus
    /\ \A j \in SessionIDs : j < id => j \in DOMAIN sstatus
    /\ IF randOK
         THEN /\ sessions' = (id :> [createdAt |-> now, expiresAt |-> now + ttl])
                                @@ sessions
              /\ sstatus' = (id :> "live") @@ sstatus
         ELSE UNCHANGED <<sessions, sstatus>>
    /\ UNCHANGED <<now, ttl, spc, sarg, sfound, last, validated, snow, sstart,
                   sCallsLeft, nonSM>>

Create(t) == \E id \in SessionIDs, randOK \in BOOLEAN : CreateSession(t, id, randOK)

\* GetSession(id) up to RUnlock: the map lookup under the shared lock.
\* Goroutines are anonymous: a call runs on the first idle thread.
GS_Read(t, id) ==
    /\ spc[t] = "idle"
    /\ \A u \in Threads : u < t => spc[u] # "idle"
    /\ sCallsLeft > 0
    /\ sCallsLeft' = sCallsLeft - 1
    /\ sarg' = [sarg EXCEPT ![t] = id]
    /\ sstart' = [sstart EXCEPT ![t] = Status(id)]
    /\ sfound' = [sfound EXCEPT ![t] =
                    IF id \in DOMAIN sessions
                      THEN [exists |-> TRUE, expiresAt |-> sessions[id].expiresAt]
                      ELSE NoFound]
    /\ spc' = [spc EXCEPT ![t] = "gs_check"]
    /\ UNCHANGED <<now, ttl, sessions, last, validated, snow, sstatus, nonSM>>

\* GetSession is entered directly, through ValidateSession, or through the
\* auth middleware of a request that carries a session cookie.
CallGetSession(t) == \E id \in KnownIDs : GS_Read(t, id)
CallValidateSession(t) == \E id \in KnownIDs : GS_Read(t, id)

\* a request without a cookie is answered (401, or logged out) without any
\* call to the session manager
NoCookieRequest(t) ==
    /\ spc[t] = "idle"
    /\ sCallsLeft > 0
    /\ sCallsLeft' = sCallsLeft - 1
    /\ UNCHANGED <<now, ttl, sessions, spc, sarg, sfound, last, validated, snow,
                   sstatus, sstart, nonSM>>

CallAuthMiddleware(t) ==
    \E cookie \in KnownIDs \cup {NoCookie} :
        IF cookie = NoCookie THEN NoCookieRequest(t) ELSE GS_Read(t, cookie)

\* time.Now().After(session.ExpiresAt)
SessionExpired(at, e) == at > e

\* GetSession returns to its caller: the thread is idle again.
Return(t, present) ==
    /\ spc' = [spc EXCEPT ![t] = "idle"]
    /\ last' = [id |-> sarg[t], ret |-> IF present THEN "session" ELSE "nil",
                start |-> sstart[t]]
    /\ validated' = IF present THEN validated \cup {sarg[t]} ELSE validated
    /\ sarg' = [sarg EXCEPT ![t] = 0]
    /\ sfound' = [sfound EXCEPT ![t] = NoFound]
    /\ snow' = [snow EXCEPT ![t] = 0]
    /\ sstart' = [sstart EXCEPT ![t] = "none"]

\* a GetSession that reports an expired session absent without deleting it
GS_CheckNoEvict(t) ==
    /\ spc[t] = "gs_check"
    /\ Return(t, sfound[t].exists /\ ~SessionExpired(now, sfound[t].expiresAt))
    /\ UNCHANGED <<now, ttl, sessions, sstatus, sCallsLeft, nonSM>>

\* GetSession after the lookup: absent if not found; if expired go on to
\* DeleteSession; otherwise return the session.
GS_Check(t) ==
    /\ spc[t] = "gs_check"
    /\ IF ~sfound[t].exists
         THEN Return(t, FALSE)
         ELSE IF SessionExpired(now, sfound[t].expiresAt)
                THEN /\ spc' = [spc EXCEPT ![t] = "gs_delete"]
                     /\ snow' = [snow EXCEPT ![t] = now]
                     /\ UNCHANGED <<sarg, sfound, last, validated, sstart>>
                ELSE Return(t, TRUE)
    /\ UNCHANGED <<now, ttl, sessions, sstatus, sCallsLeft, nonSM>>

\* a DeleteSession that leaves the entry in the map
SessionsWithoutKept(id) == sessions

\* DeleteSession(id): delete(sm.sessions, id) under the exclusive lock.
SessionsWithout(id) == [s \in (DOMAIN sessions) \ {id} |-> sessions[s]]

\* GetSession: the lazy DeleteSession of an expired session, then return nil.
GS_Delete(t) ==
    /\ spc[t] = "gs_delete"
    /\ sessions' = SessionsWithout(sarg[t])
    /\ sstatus' = [sstatus EXCEPT ![sarg[t]] = IF @ = "live" THEN "evicted" ELSE @]
    /\ Return(t, FALSE)
    /\ UNCHANGED <<now, ttl, sCallsLeft, nonSM>>

\* DeleteSession(id) called by a client of the manager.
DeleteSession(t, id) ==
    /\ spc[t] = "idle"
    /\ sCallsLeft > 0
    /\ sCallsLeft' = sCallsLeft - 1
    /\ sessions' = SessionsWithout(id)
    /\ sstatus' = IF id \in DOMAIN sstatus
                    THEN [sstatus EXCEPT ![id] = "deleted"]
                    ELSE sstatus
    /\ UNCHANGED <<now, ttl, spc, sarg, sfound, last, validated, snow, sstart,
                   nonSM>>

CallDeleteSession(t) == \E id \in KnownIDs : DeleteSession(t, id)

\* Logout: DeleteSession(cookie) when the request carries a session cookie.
Logout(t, cookie) ==
    IF cookie = NoCookie THEN NoCookieRequest(t) ELSE DeleteSession(t, cookie)

CallLogout(t) == \E cookie \in KnownIDs \cup {NoCookie} : Logout(t, cookie)

TickSession ==
    /\ now < MaxSessionTime
    /\ now' = now + 1
    /\ UNCHANGED <<smVars, nonSM>>

InitSession ==
    /\ now = 0
    /\ InitTM
    /\ InitST
    /\ \E d \in 0..MaxTTL : InitSM(d)
    /\ InitRL(1, 1, 1)
    /\ InitCV
    /\ InitCB
    /\ InitPR(FALSE)
    /\ InitDC
    /\ InitMore

NextSession ==
    \/ \E t \in Threads : Create(t)
    \/ \E t \in Threads : CallGetSession(t)
    \/ \E t \in Threads : CallValidateSession(t)
    \/ \E t \in Threads : CallAuthMiddleware(t)
    \/ \E t \in Threads : GS_Check(t)
    \/ \E t \in Threads : GS_Delete(t)
    \/ \E t \in Threads : CallDeleteSession(t)
    \/ \E t \in Threads : CallLogout(t)
    \/ TickSession

SpecSession == InitSession /\ [][NextSession]_vars

\* a GetSession (or a wrapper of it) that returns in this step
Returns(t) == spc[t] \in {"gs_check", "gs_delete"} /\ spc'[t] = "idle"

\* the time.Now() that the returning GetSession compared with the expiry
CheckedAt(t) == IF spc[t] = "gs_delete" THEN snow[t] ELSE now

\* the caller is let through: GetSession returned a session, ValidateSession
\* true and the auth middleware passed the request on
Present(r) == r = "session" /\ ValidateSession(r)
Refused(id, r) == r = "nil" /\ ~ValidateSession(r) /\ AuthMiddleware(id, r) = "401"

\* C4: GetSession(id) returns a session (ValidateSession(id) returns true)
\* if and only if an entry for id was in the store and now < expiresAt; at
\* now = expiresAt the session is already invalid.
C4_ValidIffBeforeExpiry ==
    [][\A t \in Threads :
         Returns(t) =>
            (Present(last'.ret) <=>
                (sfound[t].exists /\ CheckedAt(t) < sfound[t].expiresAt))
      ]_vars

\* C5: a created session validates at every moment before its expiry as long
\* as DeleteSession has not been called for it, and every ValidateSession,
\* GetSession or auth-middleware call that begins after DeleteSession or
\* Logout has returned for the id is refused.
C5_ValidUntilDeleted ==
    [][\A t \in Threads :
         (Returns(t) /\ sarg[t] \in DOMAIN sstatus) =>
            /\ (/\ sstatus[sarg[t]] = "live"
                /\ sarg[t] \in DOMAIN sessions
                /\ now < sessions[sarg[t]].expiresAt) => Present(last'.ret)
            /\ sstart[t] = "deleted" => Refused(sarg[t], last'.ret)
      ]_vars

\* a session that validated, was logged out before any session could have
\* expired, and is then refused
C5_Witness ==
    /\ Refused(last.id, last.ret)
    /\ last.start = "deleted"
    /\ last.id \in validated
    /\ now < ttl

\* C6: for a session whose expiry has elapsed, the GetSession that finds it
\* returns absent and the entry is gone from the map when it returns; a
\* GetSession that begins after that returns absent and performs no delete
\* (it never reaches DeleteSession and leaves the map unchanged).
C6_LazyEvictionOnce ==
    [][\A t \in Threads :
         /\ (Returns(t) /\ sfound[t].exists /\ CheckedAt(t) > sfound[t].expiresAt) =>
                /\ last'.ret = "nil"
                /\ sarg[t] \notin DOMAIN sessions'
         /\ (sstart[t] = "evicted" /\ spc[t] # "idle" /\ spc'[t] # spc[t]) =>
                /\ sessions' = sessions
                /\ spc'[t] # "gs_delete"
                /\ spc'[t] = "idle" => last'.ret = "nil"
      ]_vars

\* an expired session found and evicted by one GetSession and reported
\* absent by a second GetSession that began afterwards
C6_Witness ==
    /\ last.ret = "nil"
    /\ last.start = "evicted"
    /\ Status(last.id) = "evicted"

-----------------------------------------------------------------------------
(* RateLimiter: time and the interval are counted in the same unit *)

\* the callers' keys (client addresses)
Keys == {"k1", "k2"}

RECURSIVE SumLen(_)
SumLen(ks) == IF ks = {} THEN 0
              ELSE LET k == CHOOSE x \in ks : TRUE
                   IN  Len(hist[k]) + SumLen(ks \ {k})

\* history: the Allow calls made so far
TotalCalls == SumLen(DOMAIN hist)

\* a first sighting that starts with a full bucket and consumes nothing
FirstTokensFull == burst

\* rl.tokens[key] = rl.burst - 1 on the first sighting of a key
FirstTokens == burst - 1

\* a refill that forgets the rate
RefillOnePerInterval(elapsed) == elapsed \div interval

\* refill := int(elapsed / rl.interval) * rl.rate
Refill(elapsed) == (elapsed \div interval) * rate

\* a refill without the cap
CappedNot(n) == n

\* if tokens > rl.burst { tokens = rl.burst }
Capped(n) == IF n > burst THEN burst ELSE n

\* a refused call that restarts the key's refill period
LastTimeAfterDenyTouched(key) == [lastTime EXCEPT ![key] = now]

\* return false: rl.lastTime is written on the two allowing branches only
LastTimeAfterDeny(key) == lastTime

\* Allow(key), the whole call under rl.mu: what it does to the limiter
AllowCall(key) ==
    /\ TotalCalls < MaxAllow
    /\ IF key \notin DOMAIN lastTime
         THEN /\ tokens' = (key :> FirstTokens) @@ tokens
              /\ lastTime' = (key :> now) @@ lastTime
              /\ hist' = (key :> <<[t |-> now, ok |-> TRUE]>>) @@ hist
         ELSE LET have == Capped(tokens[key] + Refill(now - lastTime[key]))
              IN  IF have > 0
                    THEN /\ tokens' = [tokens EXCEPT ![key] = have - 1]
                         /\ lastTime' = [lastTime EXCEPT ![key] = now]
                         /\ hist' = [hist EXCEPT ![key] =
                                       Append(@, [t |-> now, ok |-> TRUE])]
                    ELSE /\ hist' = [hist EXCEPT ![key] =
                                       Append(@, [t |-> now, ok |-> FALSE])]
                         /\ lastTime' = LastTimeAfterDeny(key)
                         /\ UNCHANGED tokens
    /\ UNCHANGED <<now, rate, interval, burst>>

\* Allow(key) called on its own
Allow(key) ==
    /\ AllowCall(key)
    /\ UNCHANGED nonRL

AllowAny == \E key \in Keys : Allow(key)

TickLimiter ==
    /\ now < MaxLimiterTime
    /\ now' = now + 1
    /\ UNCHANGED <<rlVars, nonRL>>

InitLimiter ==
    /\ now = 0
    /\ InitTM
    /\ InitST
    /\ InitSM(DefaultTTL)
    /\ \E r \in 0..MaxRate, i \in 1..MaxInterval, b \in 1..MaxBurst : InitRL(r, i, b)
    /\ InitCV
    /\ InitCB
    /\ InitPR(FALSE)
    /\ InitDC
    /\ InitMore

NextLimiter ==
    \/ AllowAny
    \/ TickLimiter

SpecLimiter == InitLimiter /\ [][NextLimiter]_vars

\* C7: after any sequence of Allow calls at any times, the stored token
\* count of every key is within [0, burst].
C7_TokensWithinBurst ==
    \A k \in DOMAIN tokens : 0 <= tokens[k] /\ tokens[k] <= burst

\* a bucket that was exhausted and refilled by more than it can hold
C7_Witness ==
    \E k \in DOMAIN hist :
        \E n \in 2..Len(hist[k]) :
            /\ n = Len(hist[k])
            /\ ~hist[k][n - 1].ok
            /\ hist[k][n].ok
            /\ rate * ((hist[k][n].t - hist[k][n - 1].t) \div interval) > burst
            /\ tokens[k] = burst - 1

\* C8: for a key never seen before, while the calls occur less than one
\* interval after the first, the first burst calls return true and every
\* further call (call number burst + 1 in particular) returns false.
C8_BurstThenDeny ==
    \A k \in DOMAIN hist :
        \A n \in 1..Len(hist[k]) :
            (hist[k][n].t - hist[k][1].t < interval) =>
                (hist[k][n].ok <=> n <= burst)

\* burst + 1 calls less than one interval after the first, the last denied
C8_Witness ==
    \E k \in DOMAIN hist :
        /\ Len(hist[k]) = burst + 1
        /\ hist[k][burst + 1].t - hist[k][1].t < interval
        /\ hist[k][burst + 1].t > hist[k][1].t
        /\ ~hist[k][burst + 1].ok
        /\ burst >= 2

MinRateBurst == IF rate < burst THEN rate ELSE burst

\* C9: after a denied call, once at least one full interval has passed with
\* no call for the key, the next min(rate, burst) calls all return true.
C9_RefillAfterInterval ==
    \A k \in DOMAIN hist :
        \A d \in 1..(Len(hist[k]) - 1) :
            (~hist[k][d].ok /\ hist[k][d + 1].t - hist[k][d].t >= interval) =>
                \A j \in 1..MinRateBurst :
                    d + j <= Len(hist[k]) => hist[k][d + j].ok

\* an exhausted bucket, an interval of silence, then min(rate, burst) >= 2
\* calls allowed
C9_Witness ==
    \E k \in DOMAIN hist :
        \E d \in 1..(Len(hist[k]) - 1) :
            /\ ~hist[k][d].ok
            /\ hist[k][d + 1].t - hist[k][d].t >= interval
            /\ MinRateBurst >= 2
            /\ d + MinRateBurst <= Len(hist[k])
            /\ \A j \in 1..MinRateBurst : hist[k][d + j].ok

\* the last Allow call made for k was refused
Denied(h, k) == k \in DOMAIN h /\ ~h[k][Len(h[k])].ok

\* C34: an Allow(key) call that returns false changes nothing: the token
\* count and the last-update time of key and of every other key are after
\* the call what they were before it.
C34_DeniedChangesNothing ==
    [][\A k \in Keys :
          (hist' # hist /\ k \in DOMAIN hist' /\ hist'[k] # (IF k \in DOMAIN hist THEN hist[k] ELSE <<>>)
             /\ Denied(hist', k)) =>
                 /\ tokens' = tokens
                 /\ lastTime' = lastTime
      ]_vars

\* a call was refused some time after the key's last allowed call, with
\* another key in the limiter
C34_Witness ==
    \E k \in DOMAIN hist :
        /\ Denied(hist, k)
        /\ hist[k][Len(hist[k])].t > lastTime[k]
        /\ tokens[k] = 0
        /\ DOMAIN tokens # {k}

\* the calls number i to j for a key that returned true
AllowedIn(h, i, j) == Cardinality({n \in i..j : h[n].ok})

\* C35: for every key and every time window of length w, in any schedule of
\* calls, with rate >= 0 and burst >= 1, the number of Allow(key) calls that
\* return true inside the window is at most burst + rate * floor(w / interval).
\* The shortest window holding the calls number i to j runs from the time
\* of call i to the time of call j.
C35_WindowBound ==
    \A k \in DOMAIN hist :
        \A i \in 1..Len(hist[k]) :
            \A j \in i..Len(hist[k]) :
                AllowedIn(hist[k], i, j) <=
                    burst + rate * ((hist[k][j].t - hist[k][i].t) \div interval)

\* a window that begins with a full bucket, spans at least one interval,
\* holds a refused call, and in which as many calls were allowed as the
\* bound permits
C35_Witness ==
    \E k \in DOMAIN hist :
        \E i \in 1..Len(hist[k]) :
            \E j \in i..Len(hist[k]) :
                /\ hist[k][j].t - hist[k][i].t >= interval
                /\ rate >= 1
                /\ \E n \in i..j : ~hist[k][n].ok
                /\ AllowedIn(hist[k], i, j) =
                      burst + rate * ((hist[k][j].t - hist[k][i].t) \div interval)

-----------------------------------------------------------------------------
(* AuthHandler.Callback: time is counted in seconds *)

\* the values a client can send as state parameter or oauth_state cookie
Presentable == generated \cup {Bogus, EmptyState}

\* the callback requests: a state parameter and an oauth_state cookie (or
\* none) with a code; the provider's error redirect and the redirect without
\* a code, each with a state parameter that matches the cookie
Requests ==
    {r \in [error : BOOLEAN, code : BOOLEAN, state : Presentable,
            cookie : Presentable \cup {NoStateCookie}] :
        (r.error \/ ~r.code) =>
            (r.error # r.code /\ r.state = r.cookie /\ r.state \in generated)}

\* the identity claims an id_token carries, and those the userinfo endpoint
\* returns
TokenUser == [sub |-> "sub-idtoken", email |-> "idtoken@example.org"]
EndpointUser == [sub |-> "sub-userinfo", email |-> "userinfo@example.org"]

\* the id_token of a token response: absent, not three dot-separated parts,
\* a payload that is not JSON, or a JWT whose payload carries claims (a
\* payload without sub and email decodes to empty strings)
IDTokens ==
    {[kind |-> k, claims |-> NoUser] : k \in {"absent", "malformed", "badjson"}}
    \cup {[kind |-> "jwt", claims |-> c] : c \in {TokenUser, NoUser}}

\* GetUserInfoFromIDToken: the claims of the payload, or an error
GetUserInfoFromIDToken(idToken) ==
    IF idToken.kind = "jwt"
      THEN [ok |-> TRUE, user |-> idToken.claims]
      ELSE [ok |-> FALSE, user |-> NoUser]

\* a callback that compares nothing with the cookie
StateMatchesNoCookie(r) == r.state # EmptyState

\* err != nil || state == "" || state != storedState, negated
StateMatches(r) ==
    r.cookie # NoStateCookie /\ r.state # EmptyState /\ r.state = r.cookie

\* a callback that always asks the userinfo endpoint
NeedsUserInfoAlways(idToken) == TRUE

\* userInfo == nil || err != nil after the id_token was tried
NeedsUserInfo(idToken) ==
    idToken.kind = "absent" \/ ~GetUserInfoFromIDToken(idToken).ok

\* the callback of thread t ends with the given response
Finish(t, r, code, net, sid, tok, user) ==
    /\ clast' = [req |-> r, code |-> code, net |-> net, sid |-> sid,
                 tok |-> tok, user |-> user]
    /\ cpc' = [cpc EXCEPT ![t] = "idle"]
    /\ creq' = [creq EXCEPT ![t] = NoRequest]
    /\ ctok' = [ctok EXCEPT ![t] = NoIDToken]
    /\ cuser' = [cuser EXCEPT ![t] = NoUser]
    /\ cnet' = [cnet EXCEPT ![t] = {}]

\* a callback that hands the state parameter to ValidateState before it
\* looks at the query and the cookie
StoreAfterChecksConsumed(r) ==
    [s \in (DOMAIN stateStore) \ {r.state} |-> stateStore[s]]

\* the checks before ValidateState read the query and the cookie; none of
\* them calls the provider
StoreAfterChecks(r) == stateStore

\* Callback up to the call of ValidateState: the checks of the query
\* parameters and the cookie.  A callback runs on the first idle thread.
CB_Begin(t, r) ==
    /\ cpc[t] = "idle"
    /\ \A u \in Threads : u < t => cpc[u] # "idle"
    /\ cbLeft > 0
    /\ cbLeft' = cbLeft - 1
    /\ IF r.error
         THEN Finish(t, r, "PROVIDER_ERROR", {}, 0, NoIDToken, NoUser)
         ELSE IF ~r.code
           THEN Finish(t, r, "MISSING_CODE", {}, 0, NoIDToken, NoUser)
           ELSE IF ~StateMatches(r)
             THEN Finish(t, r, "INVALID_STATE", {}, 0, NoIDToken, NoUser)
             ELSE /\ cpc' = [cpc EXCEPT ![t] = "cb_validate"]
                  /\ creq' = [creq EXCEPT ![t] = r]
                  /\ UNCHANGED <<ctok, cuser, cnet, clast>>
    /\ stateStore' = StoreAfterChecks(r)
    /\ UNCHANGED <<now, cmade, discoveryDoc, generated, mintedAt, vhist,
                   stCallsLeft, smVars, nonCB>>

CallCallback(t) == \E r \in Requests : CB_Begin(t, r)

\* Callback: h.oidcProvider.ValidateState(state)
CB_Validate(t) ==
    /\ cpc[t] = "cb_validate"
    /\ LET state == creq[t].state IN
       /\ stateStore' = IF state \in DOMAIN stateStore
                           THEN StoreAfterValidate(state)
                           ELSE stateStore
       /\ IF ValidateStateResult(state)
            THEN /\ cpc' = [cpc EXCEPT ![t] = "cb_exchange"]
                 /\ UNCHANGED <<creq, ctok, cuser, cnet, clast>>
            ELSE Finish(t, creq[t], "STATE_VALIDATION_FAILED", cnet[t], 0, NoIDToken, NoUser)
    /\ UNCHANGED <<now, cmade, cbLeft, discoveryDoc, generated, mintedAt, vhist,
                   stCallsLeft, smVars, nonCB>>

\* Callback: ExchangeCode(code), then the id_token is tried if there is one.
CB_Exchange(t) ==
    /\ cpc[t] = "cb_exchange"
    /\ \E ok \in BOOLEAN, idToken \in IDTokens :
         IF ~ok
           THEN Finish(t, creq[t], "TOKEN_EXCHANGE_FAILED", cnet[t] \cup {"exchange"},
                       0, NoIDToken, NoUser)
           ELSE /\ cnet' = [cnet EXCEPT ![t] = @ \cup {"exchange"}]
                /\ ctok' = [ctok EXCEPT ![t] = idToken]
                /\ IF NeedsUserInfo(idToken)
                     THEN /\ cpc' = [cpc EXCEPT ![t] = "cb_userinfo"]
                          /\ UNCHANGED cuser
                     ELSE /\ cpc' = [cpc EXCEPT ![t] = "cb_create"]
                          /\ cuser' = [cuser EXCEPT ![t] =
                                         GetUserInfoFromIDToken(idToken).user]
                /\ UNCHANGED <<creq, clast>>
    /\ UNCHANGED <<now, cmade, cbLeft, stVars, smVars, nonCB>>

\* Callback: GetUserInfo(tokenResp.AccessToken)
CB_UserInfo(t) ==
    /\ cpc[t] = "cb_userinfo"
    /\ \E ok \in BOOLEAN :
         IF ~ok
           THEN Finish(t, creq[t], "USERINFO_FAILED", cnet[t] \cup {"userinfo"},
                       0, ctok[t], NoUser)
           ELSE /\ cnet' = [cnet EXCEPT ![t] = @ \cup {"userinfo"}]
                /\ cuser' = [cuser EXCEPT ![t] = EndpointUser]
                /\ cpc' = [cpc EXCEPT ![t] = "cb_create"]
                /\ UNCHANGED <<creq, ctok, clast>>
    /\ UNCHANGED <<now, cmade, cbLeft, stVars, smVars, nonCB>>

\* the session id generateSessionID returns next
NextSessionID == Cardinality(DOMAIN sessions) + 1

\* Callback: CreateSession(userInfo.Sub, userInfo.Email), the session cookie
\* and the redirect to "/".
CB_Create(t) ==
    /\ cpc[t] = "cb_create"
    /\ \E randOK \in BOOLEAN :
         IF randOK
           THEN /\ sessions' = (NextSessionID :>
                                  [createdAt |-> now, expiresAt |-> now + ttl,
                                   userID |-> cuser[t].sub, email |-> cuser[t].email])
                                @@ sessions
                /\ sstatus' = (NextSessionID :> "live") @@ sstatus
                /\ cmade' = (NextSessionID :> creq[t].state) @@ cmade
                /\ Finish(t, creq[t], "302", cnet[t], NextSessionID, ctok[t], cuser[t])
           ELSE /\ Finish(t, creq[t], "SESSION_CREATION_FAILED", cnet[t], 0, ctok[t],
                          cuser[t])
                /\ UNCHANGED <<sessions, sstatus, cmade>>
    /\ UNCHANGED <<now, cbLeft, stVars, ttl, spc, sarg, sfound, last, validated,
                   snow, sstart, sCallsLeft, nonCB>>

\* Login before the callback: GenerateState and GetAuthorizationURL; the
\* state values are random and are numbered in the order they are issued.
CallbackLogin ==
    /\ Cardinality(generated) < MaxLogins
    /\ \E fetchOK \in BOOLEAN :
          GetAuthorizationURL(Cardinality(generated) + 1, fetchOK)

\* the clock moves on to the instant a pending state expires
TickCallback ==
    /\ now < StateTTL
    /\ now' = StateTTL
    /\ UNCHANGED <<stVars, nonST>>

InitCallback ==
    /\ now = 0
    /\ InitTM
    /\ InitST
    /\ InitSM(DefaultTTL * 3600)
    /\ InitRL(1, 1, 1)
    /\ InitCV
    /\ InitCB
    /\ InitPR(FALSE)
    /\ InitDC
    /\ InitMore

NextCallback ==
    \/ CallbackLogin
    \/ \E t \in Threads : CallCallback(t)
    \/ \E t \in Threads : CB_Validate(t)
    \/ \E t \in Threads : CB_Exchange(t)
    \/ \E t \in Threads : CB_UserInfo(t)
    \/ \E t \in Threads : CB_Create(t)
    \/ TickCallback

SpecCallback == InitCallback /\ [][NextCallback]_vars

\* a callback finishes in this step: clast' describes it
Finishes ==
    \/ \E t \in Threads : cpc[t] # "idle" /\ cpc'[t] = "idle"
    \/ cbLeft' = cbLeft - 1 /\ cpc' = cpc

\* the state parameter is empty, there is no cookie, or the two differ
BadState(r) ==
    r.state = EmptyState \/ r.cookie = NoStateCookie \/ r.state # r.cookie

\* ValidateState does not accept the value: unknown or already used, or expired
NotAccepted(state) == state \notin DOMAIN stateStore \/ now >= stateStore[state]

\* C16: a callback whose state parameter is empty, differs from the state
\* cookie or comes without a cookie, or whose state ValidateState does not
\* accept (unknown, expired, already used), ends rejected without any code
\* exchange or userinfo request and without creating a session.
C16_BadStateRejectedEarly ==
    [][/\ (Finishes /\ BadState(clast'.req)) =>
            /\ clast'.code \notin {"302", "none"}
            /\ clast'.net = {}
            /\ clast'.sid = 0
            /\ sessions' = sessions
       /\ \A t \in Threads :
            (cpc[t] = "cb_validate" /\ cpc'[t] # cpc[t]
               /\ NotAccepted(creq[t].state)) =>
                /\ cpc'[t] = "idle"
                /\ clast'.req = creq[t]
                /\ clast'.code = "STATE_VALIDATION_FAILED"
                /\ clast'.net = {}
                /\ clast'.sid = 0
                /\ sessions' = sessions
      ]_vars

\* a callback presented a stored state with its matching cookie after the
\* state had expired and was rejected; no session exists
C16_Witness ==
    /\ clast.code = "STATE_VALIDATION_FAILED"
    /\ clast.req.state \in DOMAIN mintedAt
    /\ clast.req.cookie = clast.req.state
    /\ now >= mintedAt[clast.req.state] + StateTTL
    /\ clast.net = {}
    /\ sessions = <<>>

\* the answers given before ValidateState is reached
EarlyCodes == {"PROVIDER_ERROR", "MISSING_CODE", "INVALID_STATE"}

\* the callback that arrives in this step is answered at once
RejectedEarly == cbLeft' = cbLeft - 1 /\ cpc' = cpc

C17_OneSessionPerCallback ==
    [][/\ Finishes =>
            /\ (clast'.code = "302") <=> (clast'.sid # 0)
            /\ clast'.sid # 0 =>
                  /\ clast'.sid \notin DOMAIN sessions
                  /\ DOMAIN sessions' = DOMAIN sessions \cup {clast'.sid}
            /\ clast'.sid = 0 => sessions' = sessions
       /\ ~Finishes => sessions' = sessions
       /\ DOMAIN cmade' = DOMAIN sessions'
       /\ \A a, b \in DOMAIN cmade' : cmade'[a] = cmade'[b] => a = b
      ]_vars

\* one callback created a session; a later callback with the same state and
\* cookie, still within the ten minutes, was rejected and created none
C17_Witness ==
    /\ clast.code = "STATE_VALIDATION_FAILED"
    /\ \E id \in DOMAIN cmade : cmade[id] = clast.req.state
    /\ now < mintedAt[clast.req.state] + StateTTL
    /\ Cardinality(DOMAIN sessions) = 1

\* C18: after a successful code exchange the userinfo endpoint is called
\* exactly when the token response has no id_token or the id_token does not
\* parse; with an id_token that parses the session's subject and email are
\* its claims; a userinfo failure ends the callback without a session.
C18_IDTokenPreferred ==
    [][(Finishes /\ "exchange" \in clast'.net
          /\ clast'.code # "TOKEN_EXCHANGE_FAILED") =>
          /\ ("userinfo" \in clast'.net) <=>
                (clast'.tok.kind \in {"absent", "malformed", "badjson"})
          /\ (clast'.tok.kind = "jwt" /\ clast'.sid # 0) =>
                /\ sessions'[clast'.sid].userID = clast'.tok.claims.sub
                /\ sessions'[clast'.sid].email = clast'.tok.claims.email
          /\ (clast'.tok.kind # "jwt" /\ clast'.sid # 0) =>
                /\ sessions'[clast'.sid].userID = EndpointUser.sub
                /\ sessions'[clast'.sid].email = EndpointUser.email
          /\ clast'.code = "USERINFO_FAILED" =>
                /\ clast'.sid = 0
                /\ sessions' = sessions
      ]_vars

\* the id_token did not parse, the userinfo endpoint was asked, and the
\* session carries the identity it returned
C18_Witness ==
    /\ clast.code = "302"
    /\ clast.tok.kind = "badjson"
    /\ clast.net = {"exchange", "userinfo"}
    /\ clast.sid \in DOMAIN sessions
    /\ sessions[clast.sid].userID = EndpointUser.sub

-----------------------------------------------------------------------------
(* The protected /api route group: time is counted in hours *)

\* UnauthorizedResponse: 401 with a JSON body for a request whose Accept
\* header is application/json or that is marked XMLHttpRequest, otherwise a
\* redirect to the login page; the handler chain is aborted.
UnauthorizedResponse(json) ==
    IF json
      THEN [status |-> 401, location |-> "", handled |-> FALSE]
      ELSE [status |-> 302, location |-> "/auth/login", handled |-> FALSE]

\* c.Next(): the protected handler runs and answers
HandlerResponse == [status |-> 200, location |-> "", handled |-> TRUE]

\* GetSession(id) as one call: TRUE iff it returns a session
GetSessionFinds(id) ==
    id \in DOMAIN sessions /\ ~SessionExpired(now, sessions[id].expiresAt)

\* the session map after GetSession(id): an expired entry is deleted
SessionsAfterGet(id) ==
    IF id \in DOMAIN sessions /\ SessionExpired(now, sessions[id].expiresAt)
      THEN SessionsWithout(id)
      ELSE sessions

\* A request to a route of the /api group.  In dev mode the group has no
\* middleware; otherwise AuthMiddleware runs before the handler.
ProtectedRequest(cookie, json) ==
    /\ pLeft > 0
    /\ pLeft' = pLeft - 1
    /\ LET resp == IF devMode THEN HandlerResponse
                   ELSE IF cookie = NoCookie THEN UnauthorizedResponse(json)
                   ELSE IF ~GetSessionFinds(cookie) THEN UnauthorizedResponse(json)
                   ELSE HandlerResponse
       IN  plast' = [cookie |-> cookie, json |-> json, status |-> resp.status,
                     location |-> resp.location, handled |-> resp.handled,
                     was |-> IF cookie = NoCookie THEN "none" ELSE Status(cookie),
                     expiresAt |-> IF cookie \in DOMAIN sessions
                                     THEN sessions[cookie].expiresAt ELSE 0]
    /\ IF devMode \/ cookie = NoCookie
         THEN UNCHANGED <<sessions, sstatus>>
         ELSE /\ sessions' = SessionsAfterGet(cookie)
              /\ sstatus' = IF cookie \in DOMAIN sessions /\ cookie \notin DOMAIN sessions'
                              THEN [sstatus EXCEPT ![cookie] = "evicted"]
                              ELSE sstatus
    /\ UNCHANGED <<now, devMode, ttl, spc, sarg, sfound, last, validated, snow,
                   sstart, sCallsLeft, nonPR>>

CallProtected ==
    \E cookie \in KnownIDs \cup {NoCookie}, json \in BOOLEAN :
        ProtectedRequest(cookie, json)

InitProtected ==
    /\ now = 0
    /\ InitTM
    /\ InitST
    /\ \E d \in 0..MaxTTL : InitSM(d)
    /\ InitRL(1, 1, 1)
    /\ InitCV
    /\ InitCB
    /\ \E dev \in BOOLEAN : InitPR(dev)
    /\ InitDC
    /\ InitMore

NextProtected ==
    \/ Create(Caller)
    \/ CallLogout(Caller)
    \/ CallProtected
    \/ TickSession

SpecProtected == InitProtected /\ [][NextProtected]_vars

\* C19: with the authentication middleware installed, a request to a
\* protected route that carries no session cookie, an unknown session id, a
\* deleted one or one whose session has expired (now >= expiresAt) is
\* answered 401 (JSON callers) or 302 to /auth/login, and the protected
\* handler does not run.
C19_UnauthenticatedRejected ==
    [][(pLeft' = pLeft - 1 /\ ~devMode
          /\ \/ plast'.cookie = NoCookie
             \/ plast'.was \in {"unknown", "deleted", "evicted"}
             \/ (plast'.was = "live" /\ now >= plast'.expiresAt)) =>
          /\ ~plast'.handled
          /\ \/ plast'.json /\ plast'.status = 401
             \/ ~plast'.json /\ plast'.status = 302 /\ plast'.location = "/auth/login"
      ]_vars

-----------------------------------------------------------------------------
(* OIDCProvider.getDiscoveryDocument under concurrent callers *)

DiscoveryCallers == {"GetAuthorizationURL", "ExchangeCode", "GetUserInfo"}

\* what the GET of /.well-known/openid-configuration can come back with
FetchOutcomes == {"neterr", "non200", "badjson", "ok"}

\* the idle thread a new call runs on
FirstIdle(t) == dpc[t] = "idle" /\ \A u \in Callers : u < t => dpc[u] # "idle"

\* A handler calls a method, whose first statement is getDiscoveryDocument().
\* Login has generated the state it passes to GetAuthorizationURL.
D_Call(t, method) ==
    /\ dLeft > 0
    /\ FirstIdle(t)
    /\ dLeft' = dLeft - 1
    /\ dpc' = [dpc EXCEPT ![t] = "rlock"]
    /\ dop' = [dop EXCEPT ![t] = method]
    /\ IF method = "GetAuthorizationURL"
         THEN /\ darg' = [darg EXCEPT ![t] = Cardinality(generated) + 1]
              /\ generated' = generated \cup {Cardinality(generated) + 1}
         ELSE UNCHANGED <<darg, generated>>
    /\ UNCHANGED <<now, discoveryDoc, stateStore, mintedAt, vhist, stCallsLeft,
                   readers, writer, issued, succeeded, dlast, nonDC>>

\* getDiscoveryDocument returns to its caller.  GetAuthorizationURL stores
\* the state when it got a document; ExchangeCode and GetUserInfo go on to
\* their own HTTP request and change nothing in the provider.
D_Return(t, err) ==
    /\ dpc' = [dpc EXCEPT ![t] = "idle"]
    /\ dop' = [dop EXCEPT ![t] = "none"]
    /\ darg' = [darg EXCEPT ![t] = 0]
    /\ dlast' = [op |-> dop[t], err |-> err]
    /\ IF dop[t] = "GetAuthorizationURL" /\ ~err
         THEN /\ stateStore' = (darg[t] :> (now + StateTTL)) @@ stateStore
              /\ mintedAt' = (darg[t] :> now) @@ mintedAt
              /\ vhist' = (darg[t] :> <<>>) @@ vhist
         ELSE UNCHANGED <<stateStore, mintedAt, vhist>>

\* p.discoveryMu.RLock()
D_RLock(t) ==
    /\ dpc[t] = "rlock"
    /\ writer = NoThread
    /\ readers' = readers \cup {t}
    /\ dpc' = [dpc EXCEPT ![t] = "rcheck"]
    /\ UNCHANGED <<now, stVars, dop, darg, writer, issued, succeeded, dlast,
                   dLeft, nonDC>>

\* if p.discoveryDoc != nil { RUnlock; return doc }  RUnlock
D_RCheck(t) ==
    /\ dpc[t] = "rcheck"
    /\ readers' = readers \ {t}
    /\ IF discoveryDoc
         THEN D_Return(t, FALSE)
         ELSE /\ dpc' = [dpc EXCEPT ![t] = "lock"]
              /\ UNCHANGED <<dop, darg, dlast, stateStore, mintedAt, vhist>>
    /\ UNCHANGED <<now, discoveryDoc, generated, stCallsLeft, writer, issued,
                   succeeded, dLeft, nonDC>>

\* p.discoveryMu.Lock()
D_Lock(t) ==
    /\ dpc[t] = "lock"
    /\ writer = NoThread
    /\ readers = {}
    /\ writer' = t
    /\ dpc' = [dpc EXCEPT ![t] = "dcheck"]
    /\ UNCHANGED <<now, stVars, dop, darg, readers, issued, succeeded, dlast,
                   dLeft, nonDC>>

\* a second check that never finds the document
DoubleCheckSkipped == FALSE

\* the check after acquiring the write lock: p.discoveryDoc != nil
DoubleCheckHit == discoveryDoc

\* The double check: return the cached document (the deferred Unlock runs),
\* or issue the GET.
D_DoubleCheck(t) ==
    /\ dpc[t] = "dcheck"
    /\ IF DoubleCheckHit
         THEN /\ D_Return(t, FALSE)
              /\ writer' = NoThread
              /\ UNCHANGED issued
         ELSE /\ dpc' = [dpc EXCEPT ![t] = "fetch"]
              /\ issued' = issued + 1
              /\ UNCHANGED <<dop, darg, dlast, stateStore, mintedAt, vhist, writer>>
    /\ UNCHANGED <<now, discoveryDoc, generated, stCallsLeft, readers,
                   succeeded, dLeft, nonDC>>

\* a fetch that caches whatever came back
DocAfterFetchAlways(outcome) == TRUE

\* p.discoveryDoc = &doc is reached only after a 200 with a decodable body
DocAfterFetch(outcome) == discoveryDoc \/ outcome = "ok"

\* The GET comes back: a transport error, a status other than 200 or a body
\* that does not decode return an error and leave the cache nil; otherwise
\* p.discoveryDoc = &doc.  The deferred Unlock runs on every path.
D_Fetch(t, outcome) ==
    /\ dpc[t] = "fetch"
    /\ discoveryDoc' = DocAfterFetch(outcome)
    /\ succeeded' = IF outcome = "ok" THEN succeeded + 1 ELSE succeeded
    /\ writer' = NoThread
    /\ D_Return(t, outcome # "ok")
    /\ UNCHANGED <<now, generated, stCallsLeft, readers, issued, dLeft, nonDC>>

InitDiscovery == Init

NextDiscovery ==
    \/ \E t \in Callers, method \in DiscoveryCallers : D_Call(t, method)
    \/ \E t \in Callers : D_RLock(t)
    \/ \E t \in Callers : D_RCheck(t)
    \/ \E t \in Callers : D_Lock(t)
    \/ \E t \in Callers : D_DoubleCheck(t)
    \/ \E t \in Callers, outcome \in FetchOutcomes : D_Fetch(t, outcome)

SpecDiscovery == InitDiscovery /\ [][NextDiscovery]_vars

\* the threads whose discovery GET is in flight
Fetching == {t \in Callers : dpc[t] = "fetch"}

\* C20: across any interleaving of GetAuthorizationURL, ExchangeCode and
\* GetUserInfo calls on one provider, at most one discovery fetch succeeds,
\* no fetch is issued once one has succeeded, and at most one fetch is in
\* flight at any time.
C20_DiscoveryFetchedOnce ==
    /\ [](succeeded <= 1 /\ Cardinality(Fetching) <= 1)
    /\ [][issued' > issued => succeeded = 0]_vars

\* a fetch failed and a later one succeeded and returned the document,
\* while another thread that had found the cache empty is waiting for the
\* write lock
C20_Witness ==
    /\ succeeded = 1
    /\ issued >= 2
    /\ dlast.op # "none" /\ ~dlast.err
    /\ \E t \in Callers : dpc[t] = "lock"

\* C27: if the discovery fetch fails (transport error, non-200 status or
\* undecodable body), GetAuthorizationURL returns an error, stores no pending
\* state for the state it was given, and leaves the discovery cache empty:
\* the next call that gets to the double check issues a new fetch.
C27_FailedDiscoveryStoresNothing ==
    [][\A t \in Callers :
         /\ (dpc[t] = "fetch" /\ dpc'[t] = "idle" /\ succeeded' = succeeded
               /\ dop[t] = "GetAuthorizationURL") =>
                /\ dlast' = [op |-> "GetAuthorizationURL", err |-> TRUE]
                /\ stateStore' = stateStore
                /\ darg[t] \notin DOMAIN stateStore'
                /\ ~discoveryDoc'
         /\ (dpc[t] = "rcheck" /\ dpc'[t] # "rcheck" /\ succeeded = 0) =>
                dpc'[t] = "lock"
         /\ (dpc[t] = "dcheck" /\ dpc'[t] # "dcheck" /\ succeeded = 0) =>
                (dpc'[t] = "fetch" /\ issued' = issued + 1)
      ]_vars

\* a GetAuthorizationURL whose fetch failed has returned an error, its
\* state is in nobody's store, and a later call has issued the fetch again
C27_Witness ==
    /\ dlast = [op |-> "GetAuthorizationURL", err |-> TRUE]
    /\ succeeded = 0
    /\ issued >= 2
    /\ \E s \in generated : s \notin DOMAIN stateStore
    /\ \E t \in Callers : dpc[t] = "fetch"

-----------------------------------------------------------------------------
(* The public webhook: RateLimitMiddleware in front of WebhookHandler.Send *)

\* what the other components and the limiter's parameters are to a webhook
nonWH == <<tmVars, stVars, smVars, cvVars, cbVars, prVars, dcVars, vmVars,
           sdVars, rcVars, lgVars, lkVars,
           lateVars>>

\* The requests that can arrive: a client address, the Authorization header
\* (absent, without the Bearer prefix, a wrong token, the saved token) and,
\* for a request that passes the token check, how far the rest of the
\* handler gets.
WebhookRequests ==
    {r \in [ip : Keys, auth : {"absent", "nobearer", "wrong", "ok"},
            rest : {"none", "noconfig", "badjson", "blank", "dberror",
                    "norecipients", "ok"}] :
        (r.auth = "ok") = (r.rest # "none")}

\* WebhookHandler.Send: the response, by the first check that fails
WebhookResponse(r) ==
    IF r.auth # "ok" THEN [status |-> 401, code |-> "UNAUTHORIZED"]
    ELSE IF r.rest = "noconfig" THEN [status |-> 400, code |-> "CONFIG_NOT_SET"]
    ELSE IF r.rest = "badjson" THEN [status |-> 400, code |-> "INVALID_REQUEST"]
    ELSE IF r.rest = "blank" THEN [status |-> 400, code |-> "VALIDATION_ERROR"]
    ELSE IF r.rest = "dberror" THEN [status |-> 500, code |-> "DATABASE_ERROR"]
    ELSE IF r.rest = "norecipients" THEN [status |-> 400, code |-> "NO_RECIPIENTS"]
    ELSE [status |-> 200, code |-> ""]

\* a request arrives and is given to the first idle worker
W_Begin(t, r) ==
    /\ wLeft > 0
    /\ wpc[t] = "idle"
    /\ \A u \in Callers : u < t => wpc[u] # "idle"
    /\ wLeft' = wLeft - 1
    /\ wpc' = [wpc EXCEPT ![t] = "limit"]
    /\ wreq' = [wreq EXCEPT ![t] = r]
    /\ UNCHANGED <<now, rlVars, wok, wlast, wchecks, wsends, nonWH>>

\* the last answer Allow gave for key
LastAllow(h, key) == h[key][Len(h[key])].ok

\* the request leaves the worker with its answer
W_Answer(t, status, code) ==
    /\ wlast' = [req |-> wreq[t], status |-> status, code |-> code]
    /\ wpc' = [wpc EXCEPT ![t] = "idle"]
    /\ wreq' = [wreq EXCEPT ![t] = NoWebhook]
    /\ wok' = [wok EXCEPT ![t] = FALSE]

\* a middleware that lets every request through
MiddlewarePassesAll(allowed) == TRUE

\* if !limiter.Allow(key) { 429; c.Abort(); return }  c.Next()
MiddlewarePasses(allowed) == allowed

\* RateLimitMiddleware: key := c.ClientIP(); limiter.Allow(key)
W_Limit(t) ==
    /\ wpc[t] = "limit"
    /\ AllowCall(wreq[t].ip)
    /\ IF MiddlewarePasses(LastAllow(hist', wreq[t].ip))
         THEN /\ wpc' = [wpc EXCEPT ![t] = "handler"]
              /\ wok' = [wok EXCEPT ![t] = LastAllow(hist', wreq[t].ip)]
              /\ UNCHANGED <<wreq, wlast>>
         ELSE W_Answer(t, 429, "RATE_LIMITED")
    /\ UNCHANGED <<wchecks, wsends, wLeft, nonWH>>

\* WebhookHandler.Send: the token check first, SendMessages last
W_Handler(t) ==
    /\ wpc[t] = "handler"
    /\ wchecks' = wchecks + 1
    /\ wsends' = IF WebhookResponse(wreq[t]).status = 200 THEN wsends + 1 ELSE wsends
    /\ W_Answer(t, WebhookResponse(wreq[t]).status, WebhookResponse(wreq[t]).code)
    /\ UNCHANGED <<now, rlVars, wLeft, nonWH>>

TickWebhook ==
    /\ now < MaxWebhookTime
    /\ now' = now + 1
    /\ UNCHANGED <<rlVars, whVars, nonWH>>

\* NewRateLimiter(10, time.Second, 20), with the rate and the burst halved
\* until they are 1 and 2, time counted in seconds
InitWebhook ==
    /\ now = 0
    /\ InitTM
    /\ InitST
    /\ InitSM(DefaultTTL)
    /\ InitRL(1, 1, 2)
    /\ InitCV
    /\ InitCB
    /\ InitPR(FALSE)
    /\ InitDC
    /\ InitMore

\* the requests drawn here: a wrong token or the saved one, and behind the
\* saved one a body that fails validation or a message that is dispatched
ArrivingRequests ==
    {r \in WebhookRequests : r.auth \in {"wrong", "ok"}
                               /\ r.rest \in {"none", "blank", "ok"}}

NextWebhook ==
    \/ \E t \in Callers, r \in ArrivingRequests : W_Begin(t, r)
    \/ \E t \in Callers : W_Limit(t)
    \/ \E t \in Callers : W_Handler(t)
    \/ TickWebhook

SpecWebhook == InitWebhook /\ [][NextWebhook]_vars

\* C21: the webhook send handler runs for a request only after Allow(client
\* address) returned true for that request; a request for which Allow
\* returned false is answered 429 and reaches neither the token check nor a
\* message dispatch.
C21_HandlerBehindLimiter ==
    /\ [](\A t \in Callers : wpc[t] = "handler" => wok[t])
    /\ [][\A t \in Callers :
            /\ (wchecks' # wchecks \/ wsends' # wsends) =>
                   \E u \in Callers : wpc[u] = "handler" /\ wok[u]
            /\ (wpc[t] = "limit" /\ wpc'[t] # "limit"
                  /\ ~LastAllow(hist', wreq[t].ip)) =>
                   /\ wpc'[t] = "idle"
                   /\ wlast' = [req |-> wreq[t], status |-> 429, code |-> "RATE_LIMITED"]
                   /\ wchecks' = wchecks /\ wsends' = wsends
       ]_vars

\* one client was refused with 429 after the burst was used up while a
\* request admitted earlier was dispatched
C21_Witness ==
    /\ wlast.status = 429
    /\ wsends >= 1
    /\ \E k \in DOMAIN hist : Len(hist[k]) >= 3 /\ ~LastAllow(hist, k)

-----------------------------------------------------------------------------
(* ValidateMessage *)

\* everything that is not the request being validated
nonVM == <<now, tmVars, stVars, smVars, rlVars, cvVars, cbVars, prVars, dcVars,
           whVars, sdVars, rcVars, lgVars, lkVars,
           lateVars>>

\* the characters of a title or content: blank, newline and a letter
Chars == {" ", "\n", "a"}

\* unicode.IsSpace on these characters
IsSpace(c) == c \in {" ", "\n"}

Texts == UNION {[1..n -> Chars] : n \in 0..MaxTextLen}
IDLists == UNION {[1..n -> 1..MaxRecipientIDs] : n \in 0..MaxRecipientIDs}
Messages == [title : Texts, content : Texts, ids : IDLists]

RECURSIVE TrimLeft(_)
TrimLeft(s) == IF s # <<>> /\ IsSpace(Head(s)) THEN TrimLeft(Tail(s)) ELSE s

RECURSIVE TrimRight(_)
TrimRight(s) ==
    IF s # <<>> /\ IsSpace(s[Len(s)]) THEN TrimRight(SubSeq(s, 1, Len(s) - 1)) ELSE s

\* a TrimSpace that trims nothing
TrimSpaceNothing(s) == s

\* strings.TrimSpace: leading and trailing white space removed
TrimSpace(s) == TrimRight(TrimLeft(s))

\* ValidateMessage(req): the three rules in order, errors appended
ValidateMessage(r) ==
    LET e1 == IF Len(r.ids) = 0 THEN <<"ErrEmptyRecipients">> ELSE <<>>
        e2 == IF TrimSpace(r.title) = <<>> THEN <<"ErrEmptyTitle">> ELSE <<>>
        e3 == IF TrimSpace(r.content) = <<>> THEN <<"ErrEmptyContent">> ELSE <<>>
    IN  [valid |-> (e1 = <<>> /\ e2 = <<>> /\ e3 = <<>>), errors |-> e1 \o e2 \o e3]

\* the handler validates the request it decoded
CallValidateMessage ==
    /\ vres = NotValidated
    /\ vres' = ValidateMessage(vreq)
    /\ UNCHANGED <<vreq, nonVM>>

InitValidation ==
    /\ now = 0
    /\ InitTM
    /\ InitST
    /\ InitSM(DefaultTTL)
    /\ InitRL(1, 1, 1)
    /\ InitCV
    /\ InitCB
    /\ InitPR(FALSE)
    /\ InitDC
    /\ InitWH
    /\ \E r \in Messages : InitVM(r)
    /\ InitSD
    /\ InitRC
    /\ InitLG(FullConfig)
    /\ InitLK
    /\ InitLate

NextValidation == CallValidateMessage

SpecValidation == InitValidation /\ [][NextValidation]_vars

\* the text holds a character that is not white space
HasVisible(s) == \E i \in 1..Len(s) : ~IsSpace(s[i])

\* the rules the request violates
Violated(r) ==
    {e \in {"ErrEmptyRecipients", "ErrEmptyTitle", "ErrEmptyContent"} :
        \/ e = "ErrEmptyRecipients" /\ r.ids = <<>>
        \/ e = "ErrEmptyTitle" /\ ~HasVisible(r.title)
        \/ e = "ErrEmptyContent" /\ ~HasVisible(r.content)}

\* C24: ValidateMessage(req) returns Valid with an empty error list iff the
\* recipient list is non-empty and title and content each hold a
\* non-whitespace character; otherwise it returns not Valid and Errors holds
\* exactly one error for each rule violated: ErrEmptyRecipients,
\* ErrEmptyTitle, ErrEmptyContent.
C24_ValidateMessageRules ==
    vres # NotValidated =>
        /\ vres.valid <=> Violated(vreq) = {}
        /\ vres.valid <=> vres.errors = <<>>
        /\ {vres.errors[i] : i \in 1..Len(vres.errors)} = Violated(vreq)
        /\ Len(vres.errors) = Cardinality(Violated(vreq))

\* a request with recipients, a title of white space around nothing and a
\* content with a letter inside white space was refused for its title only
C24_Witness ==
    /\ vres = [valid |-> FALSE, errors |-> <<"ErrEmptyTitle">>]
    /\ vreq.ids # <<>>
    /\ Len(vreq.title) = MaxTextLen
    /\ Len(vreq.content) = MaxTextLen
    /\ IsSpace(vreq.content[1])

-----------------------------------------------------------------------------
(* MessageHandler.Send: one request with a valid message *)

nonSD == <<now, tmVars, stVars, smVars, rlVars, cvVars, cbVars, prVars, dcVars,
           whVars, vmVars, rcVars, lgVars, lkVars,
           lateVars>>

\* the recipients in the database, and an id that is in nobody's row
StoredIDs == 1..MaxStored
MissingID == MaxStored + 1

\* the OpenID column: one OpenID per row, no two rows alike
OpenIDOf(id) == 100 + id

\* the id lists a request can carry once ValidateMessage has passed
SendLists ==
    UNION {[1..n -> StoredIDs \cup {MissingID}] : n \in 1..MaxRecipientIDs}

\* openIDs as SendMessages builds it: one entry per fetched recipient
OpenIDsOf(ids) == [i \in DOMAIN ids |-> OpenIDOf(ids[i])]

\* a fetch loop that goes through whatever GetByID returns
StopsNowhere(ids, db) == {}

\* the entries at which the fetch loop returns: GetByID gave an error, the
\* database's own or ErrNotFound
Stops(ids, db) == {i \in DOMAIN ids : i = db \/ ids[i] \notin StoredIDs}

\* the first of them
FirstStop(ids, db) == CHOOSE i \in Stops(ids, db) : \A j \in Stops(ids, db) : i <= j

\* the answer of the fetch loop when it returns
FetchAnswer(ids, db) ==
    IF FirstStop(ids, db) = db
      THEN [status |-> 500, code |-> "DATABASE_ERROR", sent |-> 0, failed |-> 0]
      ELSE [status |-> 400, code |-> "RECIPIENT_NOT_FOUND", sent |-> 0, failed |-> 0]

\* Send up to the call of SendMessageToMultiple: GetByID for every id in list
\* order, 400 at the first that is missing, 500 at the first that meets a
\* database error; otherwise one goroutine per entry of openIDs.
S_Begin(ids, db) ==
    /\ sdpc = "idle"
    /\ sdids' = ids
    /\ sddb' = db
    /\ IF Stops(ids, db) # {}
         THEN /\ sdpc' = "done"
              /\ sdresp' = FetchAnswer(ids, db)
              /\ UNCHANGED <<sdpending, sdposts>>
         ELSE /\ sdpc' = "sending"
              /\ sdpending' = DOMAIN ids
              /\ sdposts' = [o \in {OpenIDOf(ids[i]) : i \in DOMAIN ids} |-> 0]
              /\ UNCHANGED sdresp
    /\ UNCHANGED <<sdtok, sdresults, nonSD>>

\* what one SendMessage call can come to
SendOutcomes == {"notoken", "neterr", "errcode", "ok"}

\* One goroutine: SendMessage(openIDs[i]) and the report on the channel.
\* Without an access token it returns before the POST.
S_SendMessage(i, outcome) ==
    /\ sdpc = "sending"
    /\ i \in sdpending
    /\ sdpending' = sdpending \ {i}
    /\ LET o == OpenIDsOf(sdids)[i] IN
       /\ sdposts' = IF outcome = "notoken" THEN sdposts
                     ELSE [sdposts EXCEPT ![o] = @ + 1]
       /\ sdresults' = (o :> outcome) @@ sdresults
    /\ sdtok' = IF outcome = "notoken" THEN sdtok ELSE sdtok \cup {i}
    /\ UNCHANGED <<sdpc, sdids, sddb, sdresp, nonSD>>

\* a collection loop that does not wait for the goroutines
AllReportedEarly == TRUE

\* for range openIDs { r := <-resultChan }: one report per goroutine
AllReported == sdpending = {}

\* SendMessages counts the outcomes per recipient; Send answers.
S_Respond ==
    /\ sdpc = "sending"
    /\ AllReported
    /\ LET ok == {i \in DOMAIN sdids :
                    OpenIDsOf(sdids)[i] \in DOMAIN sdresults
                    /\ sdresults[OpenIDsOf(sdids)[i]] = "ok"}
           sent == Cardinality(ok)
           lost == Len(sdids) - sent
       IN  sdresp' = IF lost = 0 THEN [status |-> 200, code |-> "", sent |-> sent, failed |-> lost]
                     ELSE IF sent > 0 THEN [status |-> 200, code |-> "PARTIAL_SUCCESS", sent |-> sent, failed |-> lost]
                     ELSE [status |-> 500, code |-> "SEND_FAILED", sent |-> sent, failed |-> lost]
    /\ sdpc' = "done"
    /\ UNCHANGED <<sdids, sddb, sdpending, sdtok, sdposts, sdresults, nonSD>>

NextSend ==
    \/ \E ids \in SendLists : \E db \in 0..Len(ids) : S_Begin(ids, db)
    \/ \E i \in 1..MaxRecipientIDs, outcome \in SendOutcomes : S_SendMessage(i, outcome)
    \/ S_Respond

SpecSend == Init /\ [][NextSend]_vars

\* the request names existing recipients, no OpenID twice, and all of them
\* were fetched
DistinctExisting ==
    /\ sdids # <<>>
    /\ sddb = 0
    /\ \A i \in DOMAIN sdids : sdids[i] \in StoredIDs
    /\ \A i, j \in DOMAIN sdids : i # j => sdids[i] # sdids[j]

\* POSTs made to o
Posts(o) == IF o \in DOMAIN sdposts THEN sdposts[o] ELSE 0

HasMissing == \E i \in DOMAIN sdids : sdids[i] \notin StoredIDs

\* nothing was sent: no goroutine, no access token, no POST, no report
NothingSent ==
    /\ sdpending = {}
    /\ sdtok = {}
    /\ sdresults = <<>>
    /\ \A id \in StoredIDs \cup {MissingID} : Posts(OpenIDOf(id)) = 0

\* C32 as stated: if any id of the list does not exist, Send answers 400
\* RECIPIENT_NOT_FOUND and no message is sent to any recipient.
C32_Original ==
    (sdpc # "idle" /\ HasMissing) =>
        /\ sdpc = "done"
        /\ sdresp.status = 400
        /\ sdresp.code = "RECIPIENT_NOT_FOUND"
        /\ NothingSent

\* C32: if any id of the list does not exist, no message is sent to any
\* recipient, those before the missing id included, and Send answers 400
\* RECIPIENT_NOT_FOUND unless a GetByID call at or before the first missing
\* id met a database error, in which case it answers 500 DATABASE_ERROR.
C32_MissingRecipientSendsNothing ==
    (sdpc # "idle" /\ HasMissing) =>
        /\ sdpc = "done"
        /\ NothingSent
        /\ LET firstMissing == CHOOSE i \in DOMAIN sdids :
                                 /\ sdids[i] \notin StoredIDs
                                 /\ \A j \in 1..(i - 1) : sdids[j] \in StoredIDs
           IN  IF sddb \in 1..firstMissing
                 THEN sdresp.status = 500 /\ sdresp.code = "DATABASE_ERROR"
                 ELSE sdresp.status = 400 /\ sdresp.code = "RECIPIENT_NOT_FOUND"

\* the missing id came last, after an existing recipient, and the request
\* was answered 400
C32_Witness ==
    /\ sdpc = "done"
    /\ Len(sdids) = MaxRecipientIDs
    /\ sdids[1] \in StoredIDs
    /\ sdids[Len(sdids)] = MissingID
    /\ sdresp.code = "RECIPIENT_NOT_FOUND"

-----------------------------------------------------------------------------
(* SQLiteRepository: the recipients table under concurrent calls *)

nonRC == <<now, tmVars, stVars, smVars, rlVars, cvVars, cbVars, prVars, dcVars,
           whVars, vmVars, sdVars, lgVars, lkVars,
           lateVars>>

OpenIDs == {"oA", "oB"}

\* the open_id column
StoredOpenIDs == {rstore[i] : i \in DOMAIN rstore}

\* a call returns
R_Return(t, name, arg, err) ==
    /\ rlast' = [op |-> name, arg |-> arg, err |-> err]
    /\ rpc' = [rpc EXCEPT ![t] = "idle"]
    /\ rarg' = [rarg EXCEPT ![t] = NoRecipient]

\* Create up to the INSERT: OpenIDExists runs SELECT COUNT(*) in a statement
\* of its own; ErrDuplicateOpenID when it finds a row.
R_Create(t, openID) ==
    /\ rLeft > 0
    /\ rpc[t] = "idle"
    /\ \A u \in Callers : u < t => rpc[u] # "idle"
    /\ rLeft' = rLeft - 1
    /\ IF openID \in StoredOpenIDs
         THEN R_Return(t, "Create", [id |-> 0, openID |-> openID], "ErrDuplicateOpenID")
         ELSE /\ rpc' = [rpc EXCEPT ![t] = "insert"]
              /\ rarg' = [rarg EXCEPT ![t] = [id |-> 0, openID |-> openID]]
              /\ UNCHANGED rlast
    /\ UNCHANGED <<rstore, rnext, nonRC>>

\* Create: the INSERT.  open_id is declared UNIQUE: the statement fails with
\* the driver's constraint error when the value is in the table by now.
R_Insert(t) ==
    /\ rpc[t] = "insert"
    /\ IF rarg[t].openID \in StoredOpenIDs
         THEN /\ R_Return(t, "Create", rarg[t], "sqlite3: UNIQUE constraint failed")
              /\ UNCHANGED <<rstore, rnext>>
         ELSE /\ rstore' = (rnext :> rarg[t].openID) @@ rstore
              /\ rnext' = rnext + 1
              /\ R_Return(t, "Create", rarg[t], "")
    /\ UNCHANGED <<rLeft, nonRC>>

\* Update up to the UPDATE: GetByID, then the SELECT for another row with
\* the new open_id.
R_Update(t, id, openID) ==
    /\ rLeft > 0
    /\ rpc[t] = "idle"
    /\ \A u \in Callers : u < t => rpc[u] # "idle"
    /\ rLeft' = rLeft - 1
    /\ IF id \notin DOMAIN rstore
         THEN R_Return(t, "Update", [id |-> id, openID |-> openID], "ErrNotFound")
         ELSE IF \E j \in DOMAIN rstore : j # id /\ rstore[j] = openID
           THEN R_Return(t, "Update", [id |-> id, openID |-> openID], "ErrDuplicateOpenID")
           ELSE /\ rpc' = [rpc EXCEPT ![t] = "update"]
                /\ rarg' = [rarg EXCEPT ![t] = [id |-> id, openID |-> openID]]
                /\ UNCHANGED rlast
    /\ UNCHANGED <<rstore, rnext, nonRC>>

\* Update: the UPDATE statement, under the same UNIQUE constraint; no row is
\* changed when the id has been deleted meanwhile.
R_UpdateRow(t) ==
    /\ rpc[t] = "update"
    /\ IF \E j \in DOMAIN rstore : j # rarg[t].id /\ rstore[j] = rarg[t].openID
         THEN /\ R_Return(t, "Update", rarg[t], "sqlite3: UNIQUE constraint failed")
              /\ UNCHANGED rstore
         ELSE /\ rstore' = IF rarg[t].id \in DOMAIN rstore
                             THEN [rstore EXCEPT ![rarg[t].id] = rarg[t].openID]
                             ELSE rstore
              /\ R_Return(t, "Update", rarg[t], "")
    /\ UNCHANGED <<rnext, rLeft, nonRC>>

\* Delete(id): one DELETE statement
R_Delete(t, id) ==
    /\ rLeft > 0
    /\ rpc[t] = "idle"
    /\ \A u \in Callers : u < t => rpc[u] # "idle"
    /\ rLeft' = rLeft - 1
    /\ rstore' = [j \in (DOMAIN rstore) \ {id} |-> rstore[j]]
    /\ R_Return(t, "Delete", [id |-> id, openID |-> ""],
                IF id \in DOMAIN rstore THEN "" ELSE "ErrNotFound")
    /\ UNCHANGED <<rnext, nonRC>>

NextRecipients ==
    \/ \E t \in Callers, o \in OpenIDs : R_Create(t, o)
    \/ \E t \in Callers : R_Insert(t)
    \/ \E t \in Callers, id \in 1..MaxRepoCalls, o \in OpenIDs : R_Update(t, id, o)
    \/ \E t \in Callers : R_UpdateRow(t)
    \/ \E t \in Callers, id \in 1..MaxRepoCalls : R_Delete(t, id)

SpecRecipients == Init /\ [][NextRecipients]_vars

\* the step is the return of a Create call
CreateReturns ==
    /\ rlast'.op = "Create"
    /\ \/ \E t \in Callers : rpc[t] = "insert" /\ rpc'[t] = "idle"
       \/ rLeft' = rLeft - 1 /\ rpc' = rpc

\* C26: no two recipients in the store share an OpenID, and a Create whose
\* OpenID is in the store is rejected with ErrDuplicateOpenID and leaves the
\* store unchanged, also when another Create with the same OpenID runs
\* concurrently.
C26_DuplicateOpenIDRejected ==
    /\ [](\A i, j \in DOMAIN rstore : i # j => rstore[i] # rstore[j])
    /\ [][(CreateReturns /\ rlast'.arg.openID \in StoredOpenIDs) =>
              /\ rlast'.err = "ErrDuplicateOpenID"
              /\ rstore' = rstore
       ]_vars

-----------------------------------------------------------------------------
(* AuthHandler.Login *)

\* what a login request leaves alone
nonLG == <<tmVars, smVars, rlVars, cvVars, cbVars, prVars, whVars, vmVars,
           sdVars, rcVars, lkVars,
           lateVars>>

OIDCConfigs == [provider : {"", "https://idp"}, client : {"", "id"},
                secret : {"", "s"}]

\* a provider that is taken for configured whatever its fields are
IsConfiguredAlways == TRUE

\* IsConfigured: provider URL, client id and client secret all non-empty
IsConfigured ==
    lgcfg.provider # "" /\ lgcfg.client # "" /\ lgcfg.secret # ""

\* the answers of Login
LoginAnswer(status, code, cookie, location) ==
    [status |-> status, code |-> code, cookie |-> cookie, location |-> location]

\* GET /auth/login as one step: the configuration check, GenerateState (which
\* fails when the random source fails), GetAuthorizationURL with the
\* discovery document from the cache or fetched, the state cookie and the
\* redirect.
LoginRequest(randOK, outcome) ==
    /\ lgLeft > 0
    /\ lgLeft' = lgLeft - 1
    /\ LET state == Cardinality(generated) + 1 IN
       IF ~IsConfigured
         THEN /\ lglast' = LoginAnswer(503, "OIDC_NOT_CONFIGURED", NoStateCookie, "")
              /\ UNCHANGED <<generated, discoveryDoc, stateStore, mintedAt, vhist,
                             issued, succeeded>>
       ELSE IF ~randOK
         THEN /\ lglast' = LoginAnswer(500, "STATE_GENERATION_FAILED", NoStateCookie, "")
              /\ UNCHANGED <<generated, discoveryDoc, stateStore, mintedAt, vhist,
                             issued, succeeded>>
       ELSE /\ generated' = generated \cup {state}
            /\ issued' = IF discoveryDoc THEN issued ELSE issued + 1
            /\ succeeded' = IF ~discoveryDoc /\ outcome = "ok"
                              THEN succeeded + 1 ELSE succeeded
            /\ discoveryDoc' = DocAfterFetch(outcome)
            /\ IF discoveryDoc'
                 THEN /\ stateStore' = (state :> (now + StateTTL)) @@ stateStore
                      /\ mintedAt' = (state :> now) @@ mintedAt
                      /\ vhist' = (state :> <<>>) @@ vhist
                      /\ lglast' = LoginAnswer(302, "", state, "authorization_endpoint")
                 ELSE /\ lglast' = LoginAnswer(500, "AUTH_URL_FAILED", NoStateCookie, "")
                      /\ UNCHANGED <<stateStore, mintedAt, vhist>>
    /\ UNCHANGED <<now, stCallsLeft, lgcfg, dpc, dop, darg, readers, writer,
                   dlast, dLeft, nonLG>>

CallLogin == \E randOK \in BOOLEAN, outcome \in FetchOutcomes :
                 LoginRequest(randOK, outcome)

TickLogin ==
    /\ now < MaxLoginTime
    /\ now' = now + 1
    /\ UNCHANGED <<stVars, dcVars, lgVars, nonLG>>

InitLogin ==
    /\ now = 0
    /\ InitTM
    /\ InitST
    /\ InitSM(DefaultTTL)
    /\ InitRL(1, 1, 1)
    /\ InitCV
    /\ InitCB
    /\ InitPR(FALSE)
    /\ InitDC
    /\ InitWH
    /\ InitVM(NoMessage)
    /\ InitSD
    /\ InitRC
    /\ \E cfg \in OIDCConfigs : InitLG(cfg)
    /\ InitLK
    /\ InitLate

NextLogin ==
    \/ CallLogin
    \/ TickLogin

SpecLogin == InitLogin /\ [][NextLogin]_vars

\* C28: when provider URL, client id or client secret is empty, Login
\* answers 503 and generates no state, stores no pending state, sets no
\* state cookie and issues no discovery fetch.
C28_UnconfiguredLoginFailsFast ==
    [][(lgLeft' = lgLeft - 1
          /\ (lgcfg.provider = "" \/ lgcfg.client = "" \/ lgcfg.secret = "")) =>
          /\ lglast'.status = 503
          /\ lglast'.cookie = NoStateCookie
          /\ generated' = generated
          /\ stateStore' = stateStore
          /\ issued' = issued
          /\ discoveryDoc' = discoveryDoc
      ]_vars

\* a server whose client secret alone is missing has answered 503 to every
\* login request and nothing was generated, stored or fetched
C28_Witness ==
    /\ lgcfg = [provider |-> "https://idp", client |-> "id", secret |-> ""]
    /\ lgLeft = 0
    /\ lglast.status = 503
    /\ generated = {}
    /\ issued = 0

-----------------------------------------------------------------------------
(* SessionManager at the granularity of sm.mu: time is counted in hours *)

\* what a call into the session manager leaves alone
nonLK == <<tmVars, stVars, rlVars, cvVars, cbVars, prVars, dcVars, whVars,
           vmVars, sdVars, rcVars, lgVars,
           lateVars>>
\* the fields of the history kept for the call-by-call view
smRest == <<ttl, spc, sarg, sfound, last, validated, snow, sstatus, sstart,
            sCallsLeft>>

\* a goroutine enters GetSession(id), CreateSession (id is the fresh random
\* id generateSessionID drew; the session's ExpiresAt is computed from
\* time.Now() before the lock is asked for) or DeleteSession(id)
L_Call(t, entry, id) ==
    /\ lkLeft > 0
    /\ lkpc[t] = "idle"
    /\ \A u \in Callers : u < t => lkpc[u] # "idle"
    /\ lkLeft' = lkLeft - 1
    /\ lkpc' = [lkpc EXCEPT ![t] = entry]
    /\ lkarg' = [lkarg EXCEPT ![t] = id]
    /\ lkfound' = [lkfound EXCEPT ![t] =
                     IF entry = "cs_lock"
                       THEN [exists |-> FALSE, expiresAt |-> now + ttl]
                       ELSE NoFound]
    /\ UNCHANGED <<now, sessions, smRest, lkmu, nonLK>>

\* The callers contend for one session id, the case in which lookups, lazy
\* deletes, logouts and a new login meet on sm.mu.
LockedID == 1

L_CallAny(t) ==
    \/ L_Call(t, "gs_rlock", LockedID)
    \/ L_Call(t, "ds_lock", LockedID)
    \/ LockedID \notin DOMAIN sessions /\ L_Call(t, "cs_lock", LockedID)

\* GetSession: sm.mu.RLock()
L_RLock(t) ==
    /\ lkpc[t] = "gs_rlock"
    /\ lkmu.w = NoThread
    /\ lkmu' = [lkmu EXCEPT !.r = @ \cup {t}]
    /\ lkpc' = [lkpc EXCEPT ![t] = "gs_read"]
    /\ UNCHANGED <<now, sessions, smRest, lkarg, lkfound, lkLeft, nonLK>>

\* a GetSession that keeps the shared lock after the lookup
ReadersAfterLookupKept(t) == lkmu.r

\* sm.mu.RUnlock() right after the lookup
ReadersAfterLookup(t) == lkmu.r \ {t}

\* GetSession: session, exists := sm.sessions[id]; sm.mu.RUnlock()
L_Read(t) ==
    /\ lkpc[t] = "gs_read"
    /\ lkfound' = [lkfound EXCEPT ![t] =
                     IF lkarg[t] \in DOMAIN sessions
                       THEN [exists |-> TRUE, expiresAt |-> sessions[lkarg[t]].expiresAt]
                       ELSE NoFound]
    /\ lkmu' = [lkmu EXCEPT !.r = ReadersAfterLookup(t)]
    /\ lkpc' = [lkpc EXCEPT ![t] = "gs_check"]
    /\ UNCHANGED <<now, sessions, smRest, lkarg, lkLeft, nonLK>>

\* the call returns
L_Return(t) ==
    /\ lkpc' = [lkpc EXCEPT ![t] = "idle"]
    /\ lkarg' = [lkarg EXCEPT ![t] = 0]
    /\ lkfound' = [lkfound EXCEPT ![t] = NoFound]

\* GetSession after the lookup: nil if absent, DeleteSession(id) if expired,
\* the session otherwise
L_Check(t) ==
    /\ lkpc[t] = "gs_check"
    /\ IF lkfound[t].exists /\ SessionExpired(now, lkfound[t].expiresAt)
         THEN /\ lkpc' = [lkpc EXCEPT ![t] = "ds_lock"]
              /\ UNCHANGED <<lkarg, lkfound>>
         ELSE L_Return(t)
    /\ UNCHANGED <<now, sessions, smRest, lkmu, lkLeft, nonLK>>

\* DeleteSession, CreateSession: sm.mu.Lock()
L_Lock(t) ==
    /\ lkpc[t] \in {"ds_lock", "cs_lock"}
    /\ lkmu.w = NoThread
    /\ lkmu.r = {}
    /\ lkmu' = [lkmu EXCEPT !.w = t]
    /\ lkpc' = [lkpc EXCEPT ![t] = IF lkpc[t] = "ds_lock" THEN "ds_delete" ELSE "cs_store"]
    /\ UNCHANGED <<now, sessions, smRest, lkarg, lkfound, lkLeft, nonLK>>

\* DeleteSession: delete(sm.sessions, id); sm.mu.Unlock()
L_Delete(t) ==
    /\ lkpc[t] = "ds_delete"
    /\ sessions' = SessionsWithout(lkarg[t])
    /\ lkmu' = [lkmu EXCEPT !.w = NoThread]
    /\ L_Return(t)
    /\ UNCHANGED <<now, smRest, lkLeft, nonLK>>

\* CreateSession: sm.sessions[id] = session; sm.mu.Unlock()
L_Store(t) ==
    /\ lkpc[t] = "cs_store"
    /\ sessions' = (lkarg[t] :> [createdAt |-> lkfound[t].expiresAt - ttl,
                                  expiresAt |-> lkfound[t].expiresAt])
                      @@ SessionsWithout(lkarg[t])
    /\ lkmu' = [lkmu EXCEPT !.w = NoThread]
    /\ L_Return(t)
    /\ UNCHANGED <<now, smRest, lkLeft, nonLK>>

\* the steps a goroutine takes once it is inside a call
L_Step(t) ==
    \/ L_RLock(t)
    \/ L_Read(t)
    \/ L_Check(t)
    \/ L_Lock(t)
    \/ L_Delete(t)
    \/ L_Store(t)

TickLock ==
    /\ now < MaxLockTime
    /\ now' = now + 1
    /\ UNCHANGED <<smVars, lkVars, nonLK>>

InitLocks ==
    /\ now = 0
    /\ InitTM
    /\ InitST
    /\ InitSM(1)
    /\ InitRL(1, 1, 1)
    /\ InitCV
    /\ InitCB
    /\ InitPR(FALSE)
    /\ InitDC
    /\ InitMore

NextLocks ==
    \/ \E t \in Callers : L_CallAny(t)
    \/ \E t \in Callers : L_RLock(t)
    \/ \E t \in Callers : L_Read(t)
    \/ \E t \in Callers : L_Check(t)
    \/ \E t \in Callers : L_Lock(t)
    \/ \E t \in Callers : L_Delete(t)
    \/ \E t \in Callers : L_Store(t)
    \/ TickLock

\* Fair scheduling: a goroutine that can take its next step takes it, and a
\* goroutine waiting for sm.mu gets it if it is free again and again.
SpecLocks ==
    /\ InitLocks
    /\ [][NextLocks]_vars
    /\ \A t \in Callers : WF_vars(L_Read(t) \/ L_Check(t) \/ L_Delete(t) \/ L_Store(t))
    /\ \A t \in Callers : SF_vars(L_RLock(t) \/ L_Lock(t))

\* C29: GetSession never requests the exclusive lock while it holds the
\* shared lock (the lazy delete starts after RUnlock), and under fair
\* scheduling every GetSession, CreateSession and DeleteSession call
\* returns, whatever the number of concurrent callers.
C29_NoLockUpgradeAllReturn ==
    /\ [](\A t \in Callers : lkpc[t] \in {"ds_lock", "cs_lock"} => t \notin lkmu.r)
    /\ \A t \in Callers : [](lkpc[t] # "idle" => <>(lkpc[t] = "idle"))

\* a GetSession that found its session expired waits for the exclusive lock
\* while another GetSession holds the shared one
C29_Witness ==
    \E t, u \in Callers :
        /\ t # u
        /\ lkpc[t] = "ds_lock"
        /\ lkfound[t].exists
        /\ lkpc[u] = "gs_read"
        /\ u \in lkmu.r

-----------------------------------------------------------------------------
(* WeChatService.SendMessageToMultiple, goroutine by goroutine *)

nonMX == <<now, tmVars, stVars, smVars, rlVars, cvVars, cbVars, prVars, dcVars,
           whVars, vmVars, sdVars, rcVars, lgVars, lkVars,
           cfVars>>

\* the openIDs argument: any list, an OpenID may come twice
FanOutLists == UNION {[1..n -> OpenIDs] : n \in 0..MaxFanOut}

\* the OpenIDs of a list
Distinct(ids) == {ids[i] : i \in DOMAIN ids}

\* make(chan ..., len(openIDs))
ChanCap == Len(mxids)

\* the call: the channel is made and one goroutine is started per entry
MX_Call(ids) ==
    /\ mxpc = "idle"
    /\ mxpc' = "collect"
    /\ mxids' = ids
    /\ mxgo' = [i \in DOMAIN ids |-> [pc |-> "run", outcome |-> "none", errcode |-> 0]]
    /\ mxchan' = <<>>
    /\ mxgot' = 0
    /\ mxresults' = <<>>
    /\ UNCHANGED nonMX

\* the ErrCode a goroutine reports: the response's own when SendMessage
\* returned no error, -1 when it returned one (an API error code included)
Reported(outcome) == IF outcome = "ok" THEN 0 ELSE -1

\* goroutine i: resp, err := s.SendMessage(id, ...); the HTTP client gives up
\* after 10 seconds, so the call returns
MX_SendMessage(i, outcome) ==
    /\ i \in DOMAIN mxgo
    /\ mxgo[i].pc = "run"
    /\ mxgo' = [mxgo EXCEPT ![i] = [pc |-> "send", outcome |-> outcome,
                                    errcode |-> Reported(outcome)]]
    /\ UNCHANGED <<mxpc, mxids, mxchan, mxgot, mxresults, nonMX>>

\* goroutine i: resultChan <- {id, resp}; it blocks while the buffer is full
MX_Report(i) ==
    /\ i \in DOMAIN mxgo
    /\ mxgo[i].pc = "send"
    /\ Len(mxchan) < ChanCap
    /\ mxchan' = Append(mxchan, [openID |-> mxids[i], errcode |-> mxgo[i].errcode])
    /\ mxgo' = [mxgo EXCEPT ![i].pc = "done"]
    /\ UNCHANGED <<mxpc, mxids, mxgot, mxresults, nonMX>>

\* a collection loop that counts the OpenIDs instead of the entries
ExpectedDistinct == Cardinality(Distinct(mxids))

\* for range openIDs: one receive per entry of the list
Expected == Len(mxids)

\* r := <-resultChan; results[r.openID] = r.resp
MX_Receive ==
    /\ mxpc = "collect"
    /\ mxgot < Expected
    /\ mxchan # <<>>
    /\ mxresults' = (Head(mxchan).openID :> Head(mxchan).errcode) @@ mxresults
    /\ mxchan' = Tail(mxchan)
    /\ mxgot' = mxgot + 1
    /\ UNCHANGED <<mxpc, mxids, mxgo, nonMX>>

\* return results, nil
MX_Return ==
    /\ mxpc = "collect"
    /\ mxgot >= Expected
    /\ mxpc' = "returned"
    /\ UNCHANGED <<mxids, mxgo, mxchan, mxgot, mxresults, nonMX>>

Senders == 1..MaxFanOut

NextMultiple ==
    \/ \E ids \in FanOutLists : MX_Call(ids)
    \/ \E i \in Senders, outcome \in SendOutcomes : MX_SendMessage(i, outcome)
    \/ \E i \in Senders : MX_Report(i)
    \/ MX_Receive
    \/ MX_Return

\* Fair scheduling: every goroutine that can take its next step takes it
\* (SendMessage returns because its HTTP requests time out).
SpecMultiple ==
    /\ Init
    /\ [][NextMultiple]_vars
    /\ \A i \in Senders :
          WF_vars((\E outcome \in SendOutcomes : MX_SendMessage(i, outcome)) \/ MX_Report(i))
    /\ WF_vars(MX_Receive \/ MX_Return)

\* C31: SendMessageToMultiple returns, and only after every one of its
\* len(openIDs) goroutines has delivered its report; a goroutine that has its
\* report never finds the channel full, so every goroutine ends; the map
\* returned has an entry for every OpenID of the input and no other, the
\* entry being the report of one of that OpenID's goroutines, with errcode -1
\* exactly when that SendMessage returned an error.
C31_AllDeliveredBeforeReturn ==
    /\ [](mxpc = "returned" =>
            /\ \A i \in DOMAIN mxids : mxgo[i].pc = "done"
            /\ mxchan = <<>>
            /\ DOMAIN mxresults = Distinct(mxids)
            /\ \A o \in Distinct(mxids) :
                  \E i \in DOMAIN mxids :
                     /\ mxids[i] = o
                     /\ mxresults[o] = mxgo[i].errcode
                     /\ (mxresults[o] = -1) = (mxgo[i].outcome # "ok"))
    /\ [](\A i \in DOMAIN mxgo : mxgo[i].pc = "send" => Len(mxchan) < ChanCap)
    /\ [](mxpc = "collect" => <>(mxpc = "returned"))
    /\ \A i \in Senders :
          []((i \in DOMAIN mxgo /\ mxgo[i].pc # "done") =>
                <>(i \in DOMAIN mxgo /\ mxgo[i].pc = "done"))

\* the call returned for a list that names one OpenID twice: one of its two
\* sends went through, the other failed and is the one the map kept
C31_Witness ==
    /\ mxpc = "returned"
    /\ \E i, j \in DOMAIN mxids :
          /\ i # j
          /\ mxids[i] = mxids[j]
          /\ mxgo[i].outcome = "ok"
          /\ mxgo[j].outcome # "ok"
          /\ mxresults[mxids[i]] = -1

-----------------------------------------------------------------------------
(* ConfigHandler.SaveWeChatConfig under concurrent requests *)

nonCF == <<now, stVars, smVars, rlVars, cvVars, cbVars, prVars, dcVars, whVars,
           vmVars, sdVars, rcVars, lgVars, lkVars, mxVars>>
\* the fields of TokenManager no step of this section touches
cfTmRest == <<mu, pc, op, req, ret, path, callsLeft, reqCount, minStored,
              failed, updPending, lastUpd, updFresh,
            updWaited>>

\* the secret field of a request that leaves the secret as it is
Masked == "******"

\* the request bodies: a pair of credentials, or an app id with the masked
\* secret
ConfigBodies == Creds \cup {[id |-> c.id, secret |-> Masked] : c \in Creds}

\* if the secret is masked, keep the old one: GetWeChatConfig reads the table
Unmasked(body) ==
    IF body.secret = Masked THEN [id |-> body.id, secret |-> cfstore.secret]
    ELSE body

\* the request is answered
CF_Answer(t, status, code) ==
    /\ cflast' = [req |-> cfreq'[t], status |-> status, code |-> code]
    /\ cfpc' = [cfpc EXCEPT ![t] = "idle"]

\* SaveWeChatConfig up to the call of repo.SaveWeChatConfig: the body is
\* bound (400 INVALID_REQUEST when it cannot be) and a masked secret replaced
CF_Begin(t, body, bound) ==
    /\ cfLeft > 0
    /\ cfpc[t] = "idle"
    /\ \A u \in Callers : u < t => cfpc[u] # "idle"
    /\ cfLeft' = cfLeft - 1
    /\ cfquiet' = [cfquiet EXCEPT ![t] = FALSE]
    /\ IF bound
         THEN /\ cfreq' = [cfreq EXCEPT ![t] =
                             [id |-> Unmasked(body).id,
                              secret |-> Unmasked(body).secret, saved |-> FALSE]]
              /\ cfpc' = [cfpc EXCEPT ![t] = "save"]
              /\ UNCHANGED cflast
         ELSE /\ cfreq' = [cfreq EXCEPT ![t] = NoConfig]
              /\ CF_Answer(t, 400, "INVALID_REQUEST")
    /\ UNCHANGED <<now, tmVars, cfstore, nonCF>>

\* a handler that goes on to the TokenManager whatever the repository said
AfterSaveAlways(committed) == "update"

\* if err := h.repo.SaveWeChatConfig(&config); err != nil { 500; return }
AfterSave(committed) == IF committed THEN "update" ELSE "idle"

\* repo.SaveWeChatConfig: the three rows are written in one transaction, which
\* commits or leaves the table as it was
CF_Save(t, committed) ==
    /\ cfpc[t] = "save"
    /\ cfstore' = IF committed THEN [id |-> cfreq[t].id, secret |-> cfreq[t].secret]
                  ELSE cfstore
    /\ cfreq' = [cfreq EXCEPT ![t].saved = committed]
    /\ IF AfterSave(committed) = "update"
         THEN /\ cfpc' = [cfpc EXCEPT ![t] = "update"]
              /\ UNCHANGED cflast
         ELSE CF_Answer(t, 500, "DATABASE_ERROR")
    /\ UNCHANGED <<now, tmVars, cfquiet, cfLeft, nonCF>>

\* h.tokenManager.UpdateCredentials(config.AppID, config.AppSecret), one
\* critical section of tm.mu
CF_Update(t) ==
    /\ cfpc[t] = "update"
    /\ appID' = cfreq[t].id
    /\ appSecret' = cfreq[t].secret
    /\ accessToken' = NoToken
    /\ expiresAt' = ZeroTime
    /\ cfquiet' = [u \in Callers |-> u = t]
    /\ cfpc' = [cfpc EXCEPT ![t] = "return"]
    /\ UNCHANGED <<now, cfTmRest, cfstore, cfreq, cflast, cfLeft, nonCF>>

\* h.wechatSvc.UpdateTemplateID(config.TemplateID); 200
CF_Return(t) ==
    /\ cfpc[t] = "return"
    /\ cfreq' = cfreq
    /\ CF_Answer(t, 200, "")
    /\ UNCHANGED <<now, tmVars, cfstore, cfquiet, cfLeft, nonCF>>

\* a message is being sent meanwhile: GetAccessToken finds the cache not
\* fresh and refreshToken stores the token the upstream gave for the
\* credentials the TokenManager holds
CF_Token ==
    /\ ~Fresh
    /\ \E v \in TokVals : accessToken' = [id |-> appID, secret |-> appSecret, v |-> v]
    /\ expiresAt' = now + 7200
    /\ cfquiet' = [u \in Callers |-> FALSE]
    /\ UNCHANGED <<now, appID, appSecret, cfTmRest, cfstore, cfpc, cfreq, cflast,
                   cfLeft, nonCF>>

NextConfig ==
    \/ \E t \in Callers, body \in ConfigBodies, bound \in BOOLEAN : CF_Begin(t, body, bound)
    \/ \E t \in Callers, committed \in BOOLEAN : CF_Save(t, committed)
    \/ \E t \in Callers : CF_Update(t)
    \/ \E t \in Callers : CF_Return(t)
    \/ CF_Token

SpecConfig == Init /\ [][NextConfig]_vars

\* what the TokenManager holds
Held == [id |-> appID, secret |-> appSecret]
\* what a request carries
Carried(t) == [id |-> cfreq[t].id, secret |-> cfreq[t].secret]
\* request t is answered in this step
Answered(t) == cfpc[t] # "idle" /\ cfpc'[t] = "idle"

\* C33 as stated: a request whose save fails leaves the TokenManager's
\* credentials and cached token unchanged; when a request whose save
\* succeeded returns, the TokenManager holds the saved credentials and an
\* empty token cache.
C33_Original ==
    [][\A t \in Callers :
          /\ (cfpc[t] = "save" /\ cfpc'[t] # "save" /\ ~cfreq'[t].saved) =>
                 UNCHANGED <<appID, appSecret, accessToken, expiresAt>>
          /\ (Answered(t) /\ cflast'.status = 200) =>
                 /\ Held = Carried(t)
                 /\ accessToken = NoToken
      ]_vars

\* C33: a request whose save fails is answered 500 in the same step and
\* leaves the TokenManager's credentials and cached token unchanged, and only
\* a request whose save was committed goes on to UpdateCredentials; that call
\* installs the saved credentials and empties the cache, and when the request
\* returns the TokenManager still holds them and an empty cache unless
\* another request or a token refresh has written the TokenManager since.
C33_SaveThenUpdate ==
    /\ [](\A t \in Callers : cfpc[t] \in {"update", "return"} => cfreq[t].saved)
    /\ [][\A t \in Callers :
            /\ (cfpc[t] = "save" /\ cfpc'[t] # "save" /\ ~cfreq'[t].saved) =>
                   /\ UNCHANGED <<appID, appSecret, accessToken, expiresAt>>
                   /\ Answered(t)
                   /\ cflast'.status = 500
            /\ (cfpc[t] = "update" /\ cfpc'[t] = "return") =>
                   /\ Held' = Carried(t)
                   /\ accessToken' = NoToken
                   /\ expiresAt' = ZeroTime
            /\ (Answered(t) /\ cflast'.status = 200 /\ cfquiet[t]) =>
                   /\ Held = Carried(t)
                   /\ accessToken = NoToken
       ]_vars

\* a save was refused by the database while a token was cached, and the
\* token is still there; an earlier request had installed other credentials
C33_Witness ==
    /\ cflast.code = "DATABASE_ERROR"
    /\ accessToken # NoToken
    /\ Held # [id |-> "idA", secret |-> "sA"]
    /\ Held = cfstore
    /\ Held # [id |-> cflast.req.id, secret |-> cflast.req.secret]

\* C37 as stated: once every SaveWeChatConfig request has been answered, the
\* credentials the TokenManager holds are those in the config table.
C37_MemoryEqualsPersisted ==
    (\A t \in Callers : cfpc[t] = "idle") => Held = cfstore

====
